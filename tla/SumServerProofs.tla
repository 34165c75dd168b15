-------------------------- MODULE SumServerProofs --------------------------
(***************************************************************************)
(* The sum server's books, for any number of clients and slots, any buffer *)
(* and any number of summands.                                             *)
(***************************************************************************)
EXTENDS SumServerProps, TLAPS

Queued == {backlog[k] : k \in DOMAIN backlog}

(* A connection is in the queue or in the table, once, and open.           *)
Places ==
  /\ \A k, l \in DOMAIN backlog : backlog[k] = backlog[l] => k = l
  /\ \A c \in Clients : c \in Queued \/ c \in Monitored => cpc[c] # "new" /\ reply[c] = -1
  /\ Queued \cap Monitored = {}

(* A client has stopped sending when its 0 is out, and so when answered.   *)
Stopped == \A c \in Clients : c \in ended \/ reply[c] >= 0 => cpc[c] \notin {"new", "typing"}

(* Every summand sent is in the socket, dropped, or in the client's result.*)
Books ==
  /\ \A i \in Slots : fds[i] = Nobody => result[i] = 0
  /\ \A i \in Slots : fds[i] # Nobody =>
       result[i] + unread[fds[i]] + dropped[fds[i]] = sent[fds[i]]
  /\ \A c \in Clients : c \notin Monitored /\ reply[c] = -1 => unread[c] + dropped[c] = sent[c]

IInv == TypeOK /\ OneSlotEach /\ NeverBlocks /\ Places /\ Stopped /\ Books /\ OwnSummands

(* Nobody is connected at the start. *)
LEMMA InitHolds == Init => IInv
  BY NobodyAssumption DEF Init, IInv, TypeOK, OneSlotEach, NeverBlocks, Places, Stopped, Books,
     OwnSummands, Queued, Monitored, ClientStates

(* Only Clients are queued or monitored. *)
LEMMA Ranges == TypeOK => Queued \subseteq Clients /\ Monitored \subseteq Clients
  BY DEF TypeOK, Queued, Monitored

(* The steps of a client keep the invariant. *)
LEMMA ClientKeeps == ASSUME IInv, NEW c \in Clients, CNext(c) PROVE IInv'
<1>1. Queued \subseteq Clients /\ Monitored \subseteq Clients
  BY Ranges DEF IInv
<1>2. Monitored' = Monitored /\ fds' = fds /\ result' = result /\ ready' = ready
  BY DEF CNext, CConnect, CRefused, CSend, CSendZero, CRecv, CKill, server, Monitored
<1> USE NobodyAssumption DEF IInv, OneSlotEach, NeverBlocks, Places, Stopped, Books,
        OwnSummands, Readable, ClientStates, server, history
<1>3. CASE CConnect(c)
  <2> DEFINE n == Len(backlog) + 1
  <2>1. backlog \in Seq(Clients) /\ c \notin Queued /\ c \notin Monitored /\ cpc[c] = "new"
    BY <1>3 DEF CConnect, TypeOK
  <2>2. /\ backlog' \in Seq(Clients) /\ Len(backlog') = n /\ backlog'[n] = c
        /\ \A k \in 1 .. Len(backlog) : backlog'[k] = backlog[k]
    BY <1>3, <2>1 DEF CConnect
  <2>3. DOMAIN backlog' = 1 .. n /\ DOMAIN backlog = 1 .. Len(backlog) /\ Len(backlog) \in Nat
    BY <2>1, <2>2
  <2>4. Queued' = Queued \cup {c}
    BY <2>2, <2>3 DEF Queued
  <2>5. \A k, l \in DOMAIN backlog' : backlog'[k] = backlog'[l] => k = l
    BY <2>1, <2>2, <2>3 DEF Queued
  <2>6. TypeOK'
    BY <1>3, <2>2 DEF CConnect, TypeOK
  <2>7. Places'
    <3>1. cpc' = [cpc EXCEPT ![c] = "typing"] /\ reply' = reply /\ cpc \in [Clients -> ClientStates]
      BY <1>3 DEF CConnect, TypeOK
    <3>2. reply[c] = -1
      BY <1>3 DEF CConnect, TypeOK
    <3>3. \A d \in Clients : d \in Queued' \/ d \in Monitored' => cpc'[d] # "new" /\ reply'[d] = -1
      BY <1>2, <2>4, <3>1, <3>2
    <3>4. Queued' \cap Monitored' = {}
      BY <1>2, <2>1, <2>4
    <3> QED BY <2>5, <3>3, <3>4
  <2>8. (Stopped /\ Books /\ OwnSummands /\ NeverBlocks /\ OneSlotEach)'
    BY <1>1, <1>2, <1>3 DEF CConnect, TypeOK
  <2> QED BY <2>6, <2>7, <2>8
<1>4. CASE backlog' = backlog /\ ~CConnect(c)
  <2>1. Queued' = Queued /\ DOMAIN backlog' = DOMAIN backlog
    BY <1>4 DEF Queued
  <2>2. CASE CRefused(c)
    BY <1>1, <1>2, <1>4, <2>1, <2>2 DEF CRefused, TypeOK
  <2>3. CASE CSend(c)
    BY <1>1, <1>2, <1>4, <2>1, <2>3, SizeAssumption DEF CSend, TypeOK
  <2>4. CASE CSendZero(c)
    BY <1>1, <1>2, <1>4, <2>1, <2>4 DEF CSendZero, TypeOK
  <2>5. CASE CRecv(c)
    BY <1>1, <1>2, <1>4, <2>1, <2>5 DEF CRecv, TypeOK
  <2>6. CASE CKill(c)
    BY <1>1, <1>2, <1>4, <2>1, <2>6 DEF CKill, TypeOK
  <2> QED BY <1>4, <2>2, <2>3, <2>4, <2>5, <2>6 DEF CNext
<1> QED BY <1>3, <1>4 DEF CNext, CConnect, CRefused, CSend, CSendZero, CRecv, CKill

(* accept moves the head of the queue into the table, if there is room. *)
LEMMA AcceptKeeps == ASSUME IInv, SAccept PROVE IInv'
<1> DEFINE c == Head(backlog)
<1>1. /\ backlog \in Seq(Clients) /\ backlog # <<>> /\ backlog' \in Seq(Clients)
      /\ Len(backlog') = Len(backlog) - 1 /\ c = backlog[1] /\ c \in Clients
      /\ \A k \in 1 .. Len(backlog') : backlog'[k] = backlog[k + 1]
  BY DEF IInv, TypeOK, SAccept
<1>2. DOMAIN backlog' = 1 .. Len(backlog') /\ DOMAIN backlog = 1 .. Len(backlog) /\ Len(backlog) \in Nat
  BY <1>1
<1>9. \A k \in DOMAIN backlog' : k + 1 \in DOMAIN backlog /\ backlog'[k] = backlog[k + 1]
  BY <1>1, <1>2
<1>10. 1 \in DOMAIN backlog /\ \A k, l \in DOMAIN backlog : backlog[k] = backlog[l] => k = l
  BY <1>1, <1>2 DEF IInv, Places
<1>3. Queued' = Queued \ {c} /\ c \in Queued
  <2>1. c \in Queued
    BY <1>1, <1>10 DEF Queued
  <2>3. ASSUME NEW k \in DOMAIN backlog' PROVE backlog'[k] \in Queued /\ backlog'[k] # c
    <3>1. k + 1 \in DOMAIN backlog /\ backlog'[k] = backlog[k + 1] /\ k \in Nat \ {0}
      BY <1>2, <1>9
    <3>2. k + 1 # 1
      BY <3>1
    <3> QED BY <1>1, <1>10, <3>1, <3>2 DEF Queued
  <2>2. \A x \in Queued \ {c} : x \in Queued'
    <3> SUFFICES ASSUME NEW k \in DOMAIN backlog, backlog[k] # c PROVE \E l \in DOMAIN backlog' : backlog'[l] = backlog[k]
      BY DEF Queued
    <3>1. k - 1 \in DOMAIN backlog' /\ backlog'[k - 1] = backlog[k]
      BY <1>1, <1>2
    <3> QED BY <3>1
  <2> QED BY <2>1, <2>2, <2>3 DEF Queued
<1>4. \A k, l \in DOMAIN backlog' : backlog'[k] = backlog'[l] => k = l
  <2> TAKE k, l \in DOMAIN backlog'
  <2>1. backlog'[k] = backlog'[l] => k + 1 = l + 1
    BY <1>9, <1>10
  <2> QED BY <1>2, <2>1
<1>5. /\ result' = result /\ ready' = {} /\ ready = {} /\ up' = up
      /\ UNCHANGED <<cpc, unread, ended, reply, sent, dropped, cut>>
  BY DEF SAccept, history
<1>6. c \notin Monitored /\ cpc[c] # "new" /\ reply[c] = -1 /\ c # Nobody
  BY <1>1, <1>3, NobodyAssumption DEF IInv, Places
<1>7. CASE \E i \in Slots : FirstFree(i)
  <2> PICK i \in Slots : FirstFree(i) BY <1>7
  <2>1. fds' = [fds EXCEPT ![i] = c] /\ fds[i] = Nobody /\ fds \in [Slots -> Clients \cup {Nobody}]
    <3>1. fds \in [Slots -> Clients \cup {Nobody}] /\ \A j \in Slots : j \in Int
      BY SizeAssumption DEF IInv, TypeOK, Slots
    <3>2. \A j \in Slots : FirstFree(j) <=> j = i
      BY <3>1 DEF FirstFree
    <3>3. fds' = [j \in Slots |-> IF j = i THEN c ELSE fds[j]]
      BY <3>2 DEF SAccept, AddFd
    <3> QED BY <3>1, <3>3 DEF FirstFree
  <2>2. Monitored' = Monitored \cup {c}
    BY <1>6, <2>1 DEF Monitored
  <2>3. (TypeOK /\ NeverBlocks /\ Stopped /\ OwnSummands)'
    BY <1>1, <1>5, <2>1 DEF IInv, TypeOK, NeverBlocks, Stopped, OwnSummands, ClientStates
  <2>4. Places'
    BY <1>3, <1>4, <1>5, <1>6, <2>2 DEF IInv, Places
  <2>5. OneSlotEach'
    BY <1>6, <2>1 DEF IInv, OneSlotEach, Monitored
  <2>6. Books'
    BY <1>1, <1>5, <1>6, <2>1, <2>2, NobodyAssumption DEF IInv, Books, TypeOK
  <2> QED BY <2>3, <2>4, <2>5, <2>6 DEF IInv
<1>8. CASE ~ \E i \in Slots : FirstFree(i)
  <2>1. fds' = fds /\ Monitored' = Monitored
    BY <1>8 DEF SAccept, AddFd, IInv, TypeOK, Monitored
  <2>2. (TypeOK /\ NeverBlocks /\ Stopped /\ OwnSummands /\ OneSlotEach /\ Books)'
    BY <1>1, <1>5, <2>1 DEF IInv, TypeOK, NeverBlocks, Stopped, OwnSummands, OneSlotEach, Books, ClientStates
  <2>3. Places'
    BY <1>3, <1>4, <1>5, <2>1 DEF IInv, Places
  <2> QED BY <2>2, <2>3 DEF IInv
<1> QED BY <1>7, <1>8

(* The server's visit to a slot keeps the invariant. *)
LEMMA VisitKeeps ==
  ASSUME IInv, NEW i \in Slots, NEW c \in Clients, SAdd(i, c) \/ SReply(i, c) \/ SSigpipe(i, c)
  PROVE  IInv'
<1> USE NobodyAssumption
<1>1. fds[i] = c /\ c \in ready /\ ready' = ready \ {c} /\ backlog' = backlog /\ Queued' = Queued /\ DOMAIN backlog' = DOMAIN backlog
  BY DEF SAdd, SReply, SSigpipe, Visit, Turn, Queued
<1>2. c \in Monitored /\ Queued \subseteq Clients /\ Monitored \subseteq Clients /\ cpc' = cpc /\ sent' = sent
  BY <1>1, Ranges DEF IInv, Monitored, SAdd, SReply, SSigpipe
<1>3. CASE SAdd(i, c)
  <2>1. /\ fds' = fds /\ Monitored' = Monitored /\ reply' = reply /\ up' = up
        /\ Taken(c) \in 1 .. unread[c]
    BY <1>3, SizeAssumption DEF SAdd, Monitored, Taken, IInv, TypeOK
  <2> DEFINE z == IF unread[c] < PerRead THEN {c} \cap ended ELSE {}
  <2>7. /\ result' = [result EXCEPT ![i] = @ + 1] /\ unread' = [unread EXCEPT ![c] = @ - Taken(c)]
        /\ dropped' = [dropped EXCEPT ![c] = @ + Taken(c) - 1]
        /\ ended' = ended \ z /\ cut' = cut \cup z /\ z \subseteq ended
    BY <1>3 DEF SAdd
  <2> HIDE DEF z
  <2>8. unread[c] - Taken(c) \in Nat /\ dropped[c] + Taken(c) - 1 \in Nat /\ result[i] + 1 \in Nat
    BY <2>1 DEF IInv, TypeOK
  <2>2. TypeOK'
    BY <1>1, <1>2, <2>1, <2>7, <2>8 DEF IInv, TypeOK
  <2>3. (OneSlotEach /\ Places)'
    BY <1>1, <1>2, <2>1 DEF IInv, OneSlotEach, Places
  <2>4. (NeverBlocks /\ Stopped)'
    BY <1>1, <1>2, <1>3, <2>1 DEF SAdd, IInv, NeverBlocks, Stopped, Readable, TypeOK
  <2>9. result[i] + unread[c] + dropped[c] = sent[c]
    BY <1>1 DEF IInv, Books
  <2>10. result'[i] + unread'[c] + dropped'[c] = sent[c]
    <3>1. result \in [Slots -> Nat] /\ unread \in [Clients -> Nat] /\ dropped \in [Clients -> Nat] /\ Taken(c) \in Int
      BY <2>1 DEF IInv, TypeOK
    <3>2. /\ result'[i] = result[i] + 1 /\ unread'[c] = unread[c] - Taken(c)
          /\ dropped'[c] = dropped[c] + Taken(c) - 1
      BY <2>7, <3>1
    <3>3. result[i] \in Int /\ unread[c] \in Int /\ dropped[c] \in Int
      BY <3>1
    <3> QED BY <2>9, <3>1, <3>2, <3>3
  <2>11. \A j \in Slots \ {i} : fds[j] # c /\ result'[j] = result[j]
    BY <1>1, <2>7 DEF IInv, OneSlotEach, TypeOK
  <2>12. \A d \in Clients \ {c} : unread'[d] = unread[d] /\ dropped'[d] = dropped[d]
    BY <2>7 DEF IInv, TypeOK
  <2>5. Books'
    <3>1. /\ \A j \in Slots : fds[j] = Nobody => result[j] = 0
          /\ \A j \in Slots : fds[j] # Nobody => result[j] + unread[fds[j]] + dropped[fds[j]] = sent[fds[j]]
          /\ \A d \in Clients : d \notin Monitored /\ reply[d] = -1 => unread[d] + dropped[d] = sent[d]
      BY DEF IInv, Books
    <3>2. fds \in [Slots -> Clients \cup {Nobody}] /\ c # Nobody
      BY DEF IInv, TypeOK
    <3>3. \A j \in Slots : fds'[j] = Nobody => result'[j] = 0
      BY <1>1, <2>1, <2>11, <3>1, <3>2
    <3>4. ASSUME NEW j \in Slots, fds'[j] # Nobody
          PROVE  result'[j] + unread'[fds'[j]] + dropped'[fds'[j]] = sent'[fds'[j]]
      <4>1. CASE j = i
        BY <1>1, <1>2, <2>1, <2>10, <4>1
      <4>2. CASE j # i
        <5>1. fds[j] \in Clients \ {c} /\ result'[j] = result[j]
          BY <2>1, <2>11, <3>2, <3>4, <4>2
        <5> QED BY <1>2, <2>1, <2>12, <3>1, <3>4, <5>1
      <4> QED BY <4>1, <4>2
    <3>5. \A d \in Clients : d \notin Monitored' /\ reply'[d] = -1 => unread'[d] + dropped'[d] = sent'[d]
      BY <1>2, <2>1, <2>12, <3>1
    <3> QED BY <3>3, <3>4, <3>5 DEF Books
  <2>6. OwnSummands'
    BY <1>1, <1>2, <1>3, <2>1 DEF SAdd, IInv, OwnSummands, Places, TypeOK
  <2> QED BY <2>2, <2>3, <2>4, <2>5, <2>6 DEF IInv
<1>4. CASE SReply(i, c)
  <2>1. /\ fds' = [fds EXCEPT ![i] = Nobody] /\ result' = [result EXCEPT ![i] = 0]
        /\ reply' = [reply EXCEPT ![c] = result[i]] /\ ended' = ended \ {c} /\ unread[c] = 0
        /\ cpc[c] # "killed" /\ UNCHANGED <<up, unread, dropped, cut>>
    BY <1>4 DEF SReply, ResetSlot, history
  <2>2. Monitored' = Monitored \ {c}
    BY <1>1, <2>1 DEF Monitored, IInv, OneSlotEach, TypeOK
  <2>3. TypeOK'
    BY <1>1, <1>2, <2>1 DEF IInv, TypeOK
  <2>4. (OneSlotEach /\ Places)'
    BY <1>1, <1>2, <2>1, <2>2 DEF IInv, OneSlotEach, Places, TypeOK
  <2>5. (NeverBlocks /\ Stopped)'
    BY <1>1, <1>2, <2>1, <2>2 DEF IInv, NeverBlocks, Stopped, Readable, TypeOK
  <2>6. Books'
    BY <1>1, <1>2, <2>1, <2>2 DEF IInv, Books, OneSlotEach, TypeOK
  <2>7. OwnSummands'
    <3>3. result[i] + unread[c] + dropped[c] = sent[c]
      BY <1>1 DEF IInv, Books
    <3>4. result[i] \in Nat /\ dropped[c] \in Nat /\ reply \in [Clients -> Nat \cup {-1}]
      BY DEF IInv, TypeOK
    <3>1. result[i] + dropped[c] = sent[c] /\ reply'[c] = result[i]
      BY <2>1, <3>3, <3>4
    <3>2. \A d \in Clients \ {c} : reply'[d] = reply[d]
      BY <2>1 DEF IInv, TypeOK
    <3> QED BY <1>2, <2>1, <3>1, <3>2 DEF IInv, OwnSummands
  <2> QED BY <2>3, <2>4, <2>5, <2>6, <2>7 DEF IInv
<1>5. CASE SSigpipe(i, c)
  <2>1. Monitored' = Monitored /\ fds' = fds /\ up' = FALSE
    BY <1>5 DEF SSigpipe, Monitored
  <2>2. UNCHANGED <<result, unread, ended, reply, dropped, cut>>
    BY <1>5 DEF SSigpipe, history
  <2>3. (TypeOK /\ OneSlotEach)'
    BY <1>1, <1>2, <2>1, <2>2 DEF IInv, TypeOK, OneSlotEach
  <2>4. (NeverBlocks /\ Places)'
    BY <1>1, <1>2, <2>1, <2>2 DEF IInv, NeverBlocks, Places, Readable
  <2>5. (Stopped /\ Books /\ OwnSummands)'
    BY <1>1, <1>2, <2>1, <2>2 DEF IInv, Stopped, Books, OwnSummands
  <2> QED BY <2>3, <2>4, <2>5 DEF IInv
<1> QED BY <1>3, <1>4, <1>5

(* The steps of the server keep the invariant. *)
LEMMA ServerKeeps == ASSUME IInv, SNext PROVE IInv'
<1>1. CASE SSelect
  <2>1. Queued' = Queued /\ Monitored' = Monitored /\ DOMAIN backlog' = DOMAIN backlog /\ Monitored \subseteq Clients
    BY <1>1, Ranges DEF SSelect, Queued, Monitored, IInv
  <2> QED BY <1>1, <2>1 DEF SSelect, IInv, TypeOK, OneSlotEach, NeverBlocks, Places, Stopped, Books,
             OwnSummands, Readable, history
<1> QED BY <1>1, AcceptKeeps, VisitKeeps DEF SNext

(* The invariant holds in every reachable state. *)
THEOREM Inductive == Spec => []IInv
<1>1. ASSUME IInv, [Next]_vars PROVE IInv'
  <2>1. CASE UNCHANGED vars
    <3>1. Queued' = Queued /\ Monitored' = Monitored /\ DOMAIN backlog' = DOMAIN backlog
      BY <2>1 DEF vars, server, Queued, Monitored
    <3> QED BY <1>1, <2>1, <3>1 DEF vars, server, history, IInv, TypeOK, OneSlotEach, NeverBlocks,
               Places, Stopped, Books, OwnSummands, Readable
  <2> QED BY <1>1, <2>1, ClientKeeps, ServerKeeps DEF Next
<1> QED BY InitHolds, <1>1, PTL DEF Spec

(* Variables keep their types. *)
THEOREM TypeCorrect == Spec => []TypeOK
<1>1. IInv => TypeOK
  BY DEF IInv
<1> QED BY <1>1, Inductive, PTL

(* A slot serves one client and a client has one slot. *)
THEOREM SlotsDisjoint == Spec => []OneSlotEach
<1>1. IInv => OneSlotEach
  BY DEF IInv
<1> QED BY <1>1, Inductive, PTL

(* An answer holds the client's own summands and no others. *)
THEOREM AnswersOwn == Spec => []OwnSummands
<1>1. IInv => OwnSummands
  BY DEF IInv
<1> QED BY <1>1, Inductive, PTL

(* The server blocks in select only. *)
THEOREM BlocksNowhere == Spec => []NeverBlocks
<1>1. IInv => NeverBlocks
  BY DEF IInv
<1> QED BY <1>1, Inductive, PTL
=============================================================================
