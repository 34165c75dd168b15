-------------------------- MODULE NetAdminProofs --------------------------
(***************************************************************************)
(* Theorems about NetAdmin, for any number of clients, slots, strings,     *)
(* commands and buffered frames: first lemmas about the tables and         *)
(* process_sync_mesg, then types, keys and slots, the signals of FLUSH and *)
(* the frames of a shutdown, then that the copies are in step with the     *)
(* server's tables, and last that they implement TableReplication.         *)
(***************************************************************************)
EXTENDS NetAdminRefinement, SequenceTheorems, FiniteSetTheorems,
        WellFoundedInduction, TLAPS

USE DEF CUT

-----------------------------------------------------------------------------
(* The tables and process_sync_mesg.                                       *)

(* RemoveAt on indices: what precedes i stays, what follows moves down.    *)
LEMMA RemoveAtIndices ==
  ASSUME NEW S, NEW t \in Seq(S), NEW i \in 1 .. Len(t)
  PROVE  /\ RemoveAt(t, i) \in Seq(S)
         /\ Len(RemoveAt(t, i)) = Len(t) - 1
         /\ \A j \in 1 .. Len(t) - 1 :
              RemoveAt(t, i)[j] = IF j < i THEN t[j] ELSE t[j + 1]
<1> DEFINE a == SubSeq(t, 1, i - 1)
           b == SubSeq(t, i + 1, Len(t))
<1>1. a \in Seq(S) /\ Len(a) = i - 1 /\ \A j \in 1 .. i - 1 : a[j] = t[j]
  BY SubSeqProperties
<1>2. /\ b \in Seq(S) /\ Len(b) = Len(t) - i
      /\ \A j \in 1 .. Len(t) - i : b[j] = t[i + j]
  <2>1. CASE i = Len(t)
    BY <2>1, EmptySeq, SubSeqProperties
  <2>2. CASE i < Len(t)
    BY <2>2, SubSeqProperties
  <2> QED BY <2>1, <2>2
<1>3. RemoveAt(t, i) = a \o b
  BY DEF RemoveAt
<1> HIDE DEF a, b
<1>4. /\ a \o b \in Seq(S) /\ Len(a \o b) = Len(a) + Len(b)
      /\ \A j \in 1 .. Len(a) + Len(b) :
           (a \o b)[j] = IF j <= Len(a) THEN a[j] ELSE b[j - Len(a)]
  BY <1>1, <1>2, ConcatProperties
<1>5. Len(t) \in Nat /\ i \in Nat /\ Len(a) + Len(b) = Len(t) - 1
  BY <1>1, <1>2, LenProperties
<1>6. ASSUME NEW j \in 1 .. Len(t) - 1
      PROVE  (a \o b)[j] = IF j < i THEN t[j] ELSE t[j + 1]
  <2>1. (a \o b)[j] = IF j <= Len(a) THEN a[j] ELSE b[j - Len(a)]
    BY <1>4, <1>5
  <2>2. CASE j < i
    BY <1>1, <1>5, <2>1, <2>2
  <2>3. CASE j >= i
    <3>1. j - Len(a) \in 1 .. Len(t) - i /\ i + (j - Len(a)) = j + 1
      BY <1>1, <1>5, <2>3
    <3> QED BY <1>1, <1>2, <1>5, <2>1, <2>3, <3>1
  <2> QED BY <1>5, <2>2, <2>3
<1> QED BY <1>3, <1>4, <1>5, <1>6

(* A find that hits returns the index of an entry with the key.            *)
LEMMA FindHits ==
  ASSUME NEW t, NEW m, Hits(t, m) # {}
  PROVE  Find(t, m) \in DOMAIN t /\ SameKey(t[Find(t, m)], m)
<1>1. Find(t, m) \in Hits(t, m)
  BY DEF Find
<1> QED BY <1>1 DEF Hits

(* append stores an entry.                                                 *)
LEMMA EntryTyped == ASSUME NEW m \in Msg PROVE Entry(m) \in EntryType
BY EmptySeq DEF Entry, EntryType, Msg, Str

(* process_sync_mesg returns a list of entries.                            *)
LEMMA ProcessType ==
  ASSUME NEW t \in Seq(EntryType), NEW m \in Msg
  PROVE  Process(t, m) \in Seq(EntryType)
<1>0. DOMAIN t = 1 .. Len(t)
  BY LenProperties
<1>1. Create(t, m) \in Seq(EntryType)
  BY EntryTyped, AppendProperties DEF Create
<1>2. Update(t, m) \in Seq(EntryType)
  <2>1. CASE m.l = "L2" \/ Hits(t, m) = {}
    BY <2>1 DEF Update
  <2>2. CASE m.l # "L2" /\ Hits(t, m) # {}
    <3>1. Find(t, m) \in 1 .. Len(t)
      BY <1>0, <2>2, FindHits
    <3>2. t[Find(t, m)] \in EntryType
      BY <3>1, ElementOfSeq
    <3>3. [t[Find(t, m)] EXCEPT !.via = m.via] \in EntryType
      BY <3>2 DEF EntryType, Msg
    <3> QED BY <2>2, <3>1, <3>3, ExceptSeq DEF Update
  <2> QED BY <2>1, <2>2
<1>3. Delete(t, m) \in Seq(EntryType)
  BY <1>0, FindHits, RemoveAtIndices DEF Delete
<1> QED BY <1>1, <1>2, <1>3 DEF Process, Msg, OpCodes

(* process_sync_mesg never gives a table two entries with one key.         *)
LEMMA ProcessUnique ==
  ASSUME NEW t \in Seq(EntryType), NEW m \in Msg, UniqueIn(t, m.l)
  PROVE  UniqueIn(Process(t, m), m.l)
<1>0. DOMAIN t = 1 .. Len(t) /\ Len(t) \in Nat /\ m.l \in Layers
  BY LenProperties DEF Msg
<1>1. UniqueIn(Create(t, m), m.l)
  <2>1. CASE Hits(t, m) # {}
    BY <2>1 DEF Create
  <2>2. CASE Hits(t, m) = {}
    <3> DEFINE u == Append(t, Entry(m))
    <3>1. /\ DOMAIN u = 1 .. Len(t) + 1 /\ u[Len(t) + 1] = Entry(m)
          /\ \A i \in 1 .. Len(t) : u[i] = t[i]
      BY <1>0, EntryTyped, AppendProperties, LenProperties
    <3>2. \A i \in 1 .. Len(t) : ~SameKey(t[i], m)
      BY <1>0, <2>2 DEF Hits
    <3>3. Entry(m).dest = m.dest /\ (m.l = "L3" => Entry(m).mask = m.mask)
      BY DEF Entry
    <3>4. \A i \in 1 .. Len(t) :
            ~(u[i].dest = Entry(m).dest /\ (m.l = "L3" => u[i].mask = Entry(m).mask))
      BY <3>1, <3>2, <3>3 DEF SameKey
    <3> HIDE DEF u
    <3>5. UniqueIn(u, m.l)
      BY <1>0, <3>1, <3>4 DEF UniqueIn
    <3> QED BY <2>2, <3>5 DEF Create, u
  <2> QED BY <2>1, <2>2
<1>2. UniqueIn(Update(t, m), m.l)
  <2>1. CASE m.l = "L2" \/ Hits(t, m) = {}
    BY <2>1 DEF Update
  <2>2. CASE m.l # "L2" /\ Hits(t, m) # {}
    <3> DEFINE k == Find(t, m)
               u == [t EXCEPT ![k] = [@ EXCEPT !.via = m.via]]
    <3>1. k \in 1 .. Len(t)
      BY <1>0, <2>2, FindHits
    <3>2. \A i \in 1 .. Len(t) : t[i] \in EntryType
      BY ElementOfSeq
    <3>3. DOMAIN u = 1 .. Len(t)
      BY <1>0
    <3>4. \A i \in 1 .. Len(t) : u[i].dest = t[i].dest /\ u[i].mask = t[i].mask
      BY <1>0, <3>1, <3>2 DEF EntryType
    <3> HIDE DEF u, k
    <3>5. UniqueIn(u, m.l)
      BY <1>0, <3>3, <3>4 DEF UniqueIn
    <3> QED BY <2>2, <3>5 DEF Update, u, k
  <2> QED BY <2>1, <2>2
<1>3. UniqueIn(Delete(t, m), m.l)
  <2>1. CASE Hits(t, m) = {}
    BY <2>1 DEF Delete
  <2>2. CASE Hits(t, m) # {}
    <3> DEFINE k == Find(t, m)
               u == RemoveAt(t, k)
    <3>1. k \in 1 .. Len(t)
      BY <1>0, <2>2, FindHits
    <3>2. /\ DOMAIN u = 1 .. Len(t) - 1
          /\ \A j \in 1 .. Len(t) - 1 : u[j] = IF j < k THEN t[j] ELSE t[j + 1]
      BY <3>1, RemoveAtIndices, LenProperties
    <3> HIDE DEF u, k
    <3>3. ASSUME NEW i \in 1 .. Len(t) - 1, NEW j \in 1 .. Len(t) - 1,
                 u[i].dest = u[j].dest, m.l = "L3" => u[i].mask = u[j].mask
          PROVE  i = j
      <4>1. PICK a \in 1 .. Len(t) : u[i] = t[a] /\ a = IF i < k THEN i ELSE i + 1
        BY <1>0, <3>1, <3>2
      <4>2. PICK b \in 1 .. Len(t) : u[j] = t[b] /\ b = IF j < k THEN j ELSE j + 1
        BY <1>0, <3>1, <3>2
      <4>3. a = b
        BY <1>0, <3>3, <4>1, <4>2 DEF UniqueIn
      <4> QED BY <1>0, <3>1, <4>1, <4>2, <4>3
    <3>4. UniqueIn(u, m.l)
      BY <3>2, <3>3 DEF UniqueIn
    <3> QED BY <2>2, <3>4 DEF Delete, u, k
  <2> QED BY <2>1, <2>2
<1> QED BY <1>1, <1>2, <1>3 DEF Process, Msg, OpCodes

(* The same for the pair of tables.                                        *)
LEMMA ApplyType ==
  ASSUME NEW tables \in Tables, NEW m \in Msg
  PROVE  Apply(tables, m) \in Tables
<1>1. m.l \in Layers
  BY DEF Msg
<1>2. Process(tables[m.l], m) \in Seq(EntryType)
  BY <1>1, ProcessType DEF Tables
<1> QED BY <1>1, <1>2 DEF Apply, Tables

(* A message to either table keeps the keys of both unique.                *)
LEMMA ApplyUnique ==
  ASSUME NEW tables \in Tables, NEW m \in Msg, Unique(tables)
  PROVE  Unique(Apply(tables, m))
<1>1. m.l \in Layers /\ tables[m.l] \in Seq(EntryType) /\ UniqueIn(tables[m.l], m.l)
  BY DEF Msg, Tables, Unique
<1>2. UniqueIn(Process(tables[m.l], m), m.l)
  BY <1>1, ProcessUnique
<1>3. /\ Apply(tables, m)[m.l] = Process(tables[m.l], m)
      /\ \A l \in Layers : l # m.l => Apply(tables, m)[l] = tables[l]
  BY <1>1 DEF Apply, Tables
<1> QED BY <1>2, <1>3 DEF Unique

(* Two fresh lists have no entries to clash.                               *)
LEMMA EmptyTablesUnique == EmptyTables \in Tables /\ Unique(EmptyTables)
<1>1. << >> \in Seq(EntryType) /\ DOMAIN << >> = 1 .. 0
  BY EmptySeq, LenProperties
<1> QED BY <1>1 DEF EmptyTables, Tables, Unique, UniqueIn

(* A message without a command in it changes nothing.                      *)
LEMMA ApplyNone ==
  ASSUME NEW tables \in Tables, NEW m \in Msg, m.op = "NONE"
  PROVE  Apply(tables, m) = tables
BY DEF Apply, Process, Msg, Tables

(* CREATE of the next entry extends a copy of the first i entries by one.  *)
LEMMA CopyNext ==
  ASSUME NEW t \in Seq(EntryType), NEW m \in Msg, NEW i \in 0 .. Len(t) - 1,
         UniqueIn(t, m.l), m.op = "CREATE", Entry(m) = t[i + 1]
  PROVE  Process(SubSeq(t, 1, i), m) = SubSeq(t, 1, i + 1)
<1> DEFINE u == SubSeq(t, 1, i)
           v == SubSeq(t, 1, i + 1)
<1>0. DOMAIN t = 1 .. Len(t) /\ Len(t) \in Nat /\ i \in Nat
  BY LenProperties
<1>1. u \in Seq(EntryType) /\ Len(u) = i /\ \A j \in 1 .. i : u[j] = t[j]
  BY <1>0, SubSeqProperties, ElementOfSeq
<1>2. v \in Seq(EntryType) /\ Len(v) = i + 1 /\ \A j \in 1 .. i + 1 : v[j] = t[j]
  BY <1>0, SubSeqProperties, ElementOfSeq
<1>3. DOMAIN u = 1 .. i
  BY <1>1, LenProperties
<1> HIDE DEF u, v
<1>4. Hits(u, m) = {}
  <2>1. SUFFICES ASSUME NEW j \in 1 .. i, SameKey(u[j], m) PROVE FALSE
    BY <1>3 DEF Hits
  <2>2. t[j].dest = t[i + 1].dest /\ (m.l = "L3" => t[j].mask = t[i + 1].mask)
    BY <1>1, <2>1 DEF SameKey, Entry
  <2>3. j \in DOMAIN t /\ i + 1 \in DOMAIN t /\ j # i + 1
    BY <1>0
  <2> QED BY <2>2, <2>3 DEF UniqueIn
<1>5. Process(u, m) = Append(u, Entry(m))
  BY <1>4 DEF Process, Create
<1>6. /\ Append(u, Entry(m)) \in Seq(EntryType)
      /\ Len(Append(u, Entry(m))) = i + 1
      /\ \A j \in 1 .. i + 1 : Append(u, Entry(m))[j] = v[j]
  BY <1>0, <1>1, <1>2, EntryTyped, AppendProperties
<1>7. Append(u, Entry(m)) = v
  BY <1>2, <1>6, SeqEqual
<1> QED BY <1>5, <1>7 DEF u, v

(* A string copied over one that is not longer is read back as it was.     *)
LEMMA OverlayNotLonger ==
  ASSUME NEW s \in Str, NEW old \in Str, Len(old) <= Len(s)
  PROVE  Overlay(s, old) = s
<1>1. SubSeq(old, Len(s) + 1, Len(old)) = << >>
  BY SubSeqEmpty, LenProperties DEF Str
<1> QED BY <1>1, ConcatEmptySeq DEF Overlay, Str

(* Overlaying a string gives a string.                                     *)
LEMMA OverlayType ==
  ASSUME NEW s \in Str, NEW old \in Str
  PROVE  Overlay(s, old) \in Str
<1>1. Len(s) \in Nat /\ Len(old) \in Nat
  BY LenProperties DEF Str
<1>2. \A i \in Len(s) + 1 .. Len(old) : old[i] \in Nat
  BY <1>1, ElementOfSeq DEF Str
<1>3. SubSeq(old, Len(s) + 1, Len(old)) \in Seq(Nat)
  BY <1>1, <1>2, SubSeqProperties
<1> QED BY <1>3, ConcatProperties DEF Overlay, Str

-----------------------------------------------------------------------------
(* The server and its clients.                                             *)

USE DEF Layers, WAIT, RT, ML

(* Every message on its way is a message.                                  *)
LEMMA MessagesTyped ==
  /\ ZeroMsg \in Msg /\ NoneMsg \in Msg
  /\ Goodbye \in Frames
  /\ \A m \in Commands : m \in Msg
<1>1. << >> \in Str
  BY EmptySeq DEF Str
<1>2. ZeroMsg \in Msg
  BY <1>1 DEF ZeroMsg, Msg, OpCodes
<1>3. NoneMsg \in Msg
  BY <1>2 DEF NoneMsg, Msg, OpCodes
<1>4. Goodbye \in Frames
  BY <1>3 DEF Goodbye, Frame, Frames
<1>5. ASSUME NEW m \in Commands PROVE m \in Msg
  <2>1. CASE m = NoneMsg
    BY <1>3, <2>1
  <2>2. CASE m \in [op : {"CREATE", "UPDATE"}, l : {"L3"}, dest : Dests, mask : Masks, via : Vias]
    BY <2>2, StringsAssumption DEF Msg, OpCodes
  <2>3. CASE m \in [op : {"DELETE"}, l : {"L3"}, dest : Dests, mask : Masks, via : {<< >>}]
    BY <1>1, <2>3, StringsAssumption DEF Msg, OpCodes
  <2>4. CASE m \in [op : {"CREATE", "UPDATE", "DELETE"}, l : {"L2"}, dest : Macs,
                    mask : {0}, via : {<< >>}]
    BY <1>1, <2>4, StringsAssumption DEF Msg, OpCodes
  <2> QED BY <2>1, <2>2, <2>3, <2>4 DEF Commands
<1> QED BY <1>2, <1>3, <1>4, <1>5

(* A message with its two flags is a frame.                                *)
LEMMA FrameTyped ==
  ASSUME NEW m \in Msg, NEW s \in 0 .. CUT, NEW lp \in {0, 1, CUT}
  PROVE  Frame(m, s, lp) \in Frames
BY DEF Frame, Frames

(* update_new_client builds a message.                                     *)
LEMMA DumpMsgTyped ==
  ASSUME NEW m \in Msg, NEW l \in Layers, NEW e \in EntryType
  PROVE  DumpMsg(m, l, e) \in Msg
<1>1. Overlay(e.dest, m.dest) \in Str /\ Overlay(e.via, m.via) \in Str
  BY OverlayType DEF EntryType, Msg
<1> QED BY <1>1 DEF DumpMsg, EntryType, Msg, OpCodes

(* A write leaves every socket with frames.                                *)
LEMMA PushTyped ==
  ASSUME chan \in [Clients -> Seq(Frames)], NEW c \in Clients, NEW f \in Frames
  PROVE  Push(c, f) \in [Clients -> Seq(Frames)]
<1>1. Append(chan[c], f) \in Seq(Frames)
  BY AppendProperties
<1> QED BY <1>1 DEF Push

(* A processed frame leads to a state of the client.                       *)
LEMMA AfterTyped == ASSUME NEW f PROVE After(f) \in ClientStates
BY DEF After, ClientStates

(* The frame under way is a frame, also when it is cut short.              *)
LEMMA CutTyped ==
  ASSUME TypeOK, Peer # None, Serving
  PROVE  \A f \in CutFrames : f \in Frames
<1>1. Sending.msg \in Msg /\ Sending.sync \in 0 .. CUT
  <2>1. CASE spc = "bcast"
    BY <2>1, FrameTyped DEF Sending, Frame, TypeOK
  <2>2. CASE spc # "bcast" /\ pos < Len(tbl[dl])
    <3>1. spc = "dump"
      BY <2>2, NoneAssumption DEF Peer, Serving
    <3>2. tbl[dl][pos + 1] \in EntryType
      <4>1. pos + 1 \in 1 .. Len(tbl[dl]) /\ tbl[dl] \in Seq(EntryType)
        BY <2>2, LenProperties DEF TypeOK, Tables
      <4> QED BY <4>1, ElementOfSeq
    <3>3. DumpMsg(cur, dl, tbl[dl][pos + 1]) \in Msg
      BY <3>2, DumpMsgTyped DEF TypeOK
    <3> QED BY <2>2, <3>3 DEF Sending, Frame, TypeOK
  <2>3. CASE spc # "bcast" /\ ~(pos < Len(tbl[dl]))
    <3>1. [cur EXCEPT !.op = "NONE"] \in Msg
      BY DEF TypeOK, Msg, OpCodes
    <3> QED BY <2>3, <3>1 DEF Sending, Frame, Notice
  <2> QED BY <2>1, <2>2, <2>3
<1> QED BY <1>1, FrameTyped DEF CutFrames

(* All but the last one.                                                   *)
LEMMA FrontTyped ==
  ASSUME NEW S, NEW q \in Seq(S), q # << >>
  PROVE  Front(q) \in Seq(S)
<1>1. Len(q) \in Nat /\ Len(q) # 0
  BY EmptySeq, LenProperties
<1> QED BY <1>1, SubSeqProperties DEF Front

(* A completed frame and what is left of the goodbye are frames.           *)
LEMMA CompletedTyped ==
  ASSUME TypeOK, NEW d \in Clients, Halfway(d),
         NEW f \in Completed(Last(chan[d])), NEW r \in Remainders
  PROVE  Front(chan[d]) \o <<f, r>> \in Seq(Frames)
<1>1. chan[d] \in Seq(Frames) /\ chan[d] # << >>
  BY DEF TypeOK, Halfway
<1>2. Last(chan[d]) \in Frames
  BY <1>1, LenProperties, ElementOfSeq, EmptySeq DEF Last
<1>3. f \in Frames
  BY <1>2, FrameTyped DEF Completed, Frames
<1>4. r \in Frames
  BY MessagesTyped, FrameTyped DEF Remainders
<1>5. Front(chan[d]) \in Seq(Frames)
  BY <1>1, FrontTyped
<1> QED BY <1>3, <1>4, <1>5, ConcatProperties

(* Both processes start with the right types.                              *)
LEMMA TypeInit == Init => TypeOK
<1> SUFFICES ASSUME Init PROVE TypeOK
  OBVIOUS
<1>1. tbl \in Tables /\ ctbl \in [Clients -> Tables]
  BY EmptyTablesUnique DEF Init
<1>2. cur \in Msg
  BY MessagesTyped DEF Init
<1>3. chan \in [Clients -> Seq(Frames)] /\ pids \in Seq(Clients) /\ backlog \in Seq(Clients)
  BY EmptySeq DEF Init
<1> QED BY <1>1, <1>2, <1>3, BoundsAssumption
       DEF Init, TypeOK, ServerStates, ClientStates

(* Every action keeps the types.                                           *)
LEMMA TypeStep == TypeOK /\ [Next]_vars => TypeOK'
<1> SUFFICES ASSUME TypeOK, [Next]_vars PROVE TypeOK'
  OBVIOUS
<1> USE DEF ServerStates
<1>1. CASE SAccept
  <2>1. /\ Head(backlog) \in Clients /\ backlog' \in Seq(Clients)
    BY <1>1, HeadTailProperties DEF SAccept, AddFd, AddPid, TypeOK
  <2>2. pids' \in Seq(Clients)
    BY <1>1, <2>1, AppendProperties DEF SAccept, AddFd, AddPid, TypeOK
  <2>3. fds' \in [Slots -> Clients \cup {None}]
    BY <1>1, <2>1 DEF SAccept, AddFd, AddPid, TypeOK
  <2> QED BY <1>1, <2>1, <2>2, <2>3 DEF SAccept, AddFd, AddPid, TypeOK, cvars
<1>2. CASE SDumpEntry
  <2> DEFINE m == DumpMsg(cur, dl, tbl[dl][pos + 1])
  <2>1. tbl[dl][pos + 1] \in EntryType
    <3>1. pos + 1 \in 1 .. Len(tbl[dl]) /\ tbl[dl] \in Seq(EntryType)
      BY <1>2, LenProperties DEF SDumpEntry, TypeOK, Tables
    <3> QED BY <3>1, ElementOfSeq
  <2>2. m \in Msg
    BY <2>1, DumpMsgTyped DEF TypeOK
  <2>3. newc \in Clients
    BY <1>2 DEF SDumpEntry, TypeOK
  <2>4. Frame(m, sync, 1) \in Frames
    BY <2>2, FrameTyped DEF TypeOK
  <2>5. chan' \in [Clients -> Seq(Frames)]
    BY <1>2, <2>3, <2>4, PushTyped DEF SDumpEntry, TypeOK
  <2>6. cur' = m
    BY <1>2 DEF SDumpEntry
  <2> HIDE DEF m
  <2> QED BY <1>2, <2>2, <2>3, <2>5, <2>6 DEF SDumpEntry, TypeOK
<1>3. CASE SDumpNotice
  <2> DEFINE m == [cur EXCEPT !.op = "NONE"]
  <2>0. spc = "dump" /\ UNCHANGED <<tbl, fds, pids, backlog, nops, torn, cpc, ctbl>>
    BY <1>3 DEF SDumpNotice
  <2>1. m \in Msg /\ Notice(dl) \in 0 .. CUT /\ newc \in Clients
    <3>1. cur \in Msg /\ newc \in Clients
      BY <1>3 DEF SDumpNotice, TypeOK
    <3>2. m \in Msg
      BY <3>1 DEF Msg, OpCodes
    <3> QED BY <3>1, <3>2 DEF Notice
  <2>2. chan' \in [Clients -> Seq(Frames)]
    <3>1. Frame(m, Notice(dl), 1) \in Frames
      BY <2>1, FrameTyped
    <3> QED BY <1>3, <2>1, <3>1, PushTyped DEF SDumpNotice, TypeOK
  <2>3. CASE dl = "L3"
    <3>1. cur' = m /\ sync' = RT /\ dl' = "L2" /\ pos' = 0 /\ UNCHANGED <<spc, newc, ready>>
      BY <1>3, <2>3 DEF SDumpNotice
    <3> HIDE DEF m
    <3> QED BY <2>0, <2>1, <2>2, <3>1 DEF TypeOK
  <2>4. CASE dl # "L3"
    <3>1. NextIteration
      BY <1>3, <2>4 DEF SDumpNotice
    <3> QED BY <2>0, <2>2, <3>1, MessagesTyped, MaxClientsAssumption DEF NextIteration, TypeOK
  <2> QED BY <2>3, <2>4
<1>4. ASSUME NEW m \in Commands, SCommand(m) PROVE TypeOK'
  <2>1. m \in Msg /\ Notice(m.l) \in 0 .. 2
    BY MessagesTyped DEF Notice
  <2>2. tbl' \in Tables
    BY <1>4, <2>1, ApplyType DEF SCommand, TypeOK
  <2> QED BY <1>4, <2>1, <2>2, BoundsAssumption, MaxClientsAssumption
         DEF SCommand, TypeOK, cvars
<1>5. CASE SFlush
  <2>1. PICK how \in [Clients -> {"none", "between", "loses", "dies"}] :
          /\ \A c \in Clients : how[c] \in FlushOutcomes(c)
          /\ ctbl' = [c \in Clients |-> IF how[c] = "none" THEN ctbl[c] ELSE EmptyTables]
          /\ chan' = [c \in Clients |->
                        IF how[c] = "loses" \/ (how[c] = "dies" /\ cpc[c] = "loop")
                        THEN Tail(chan[c]) ELSE chan[c]]
          /\ cpc'  = [c \in Clients |-> CASE how[c] = "dies"  -> "dead"
                                         [] how[c] = "loses" -> After(Head(chan[c]))
                                         [] OTHER -> cpc[c]]
    BY <1>5 DEF SFlush, FlushClients, FlushServer
  <2>2. ctbl' \in [Clients -> Tables] /\ tbl' \in Tables
    BY <1>5, <2>1, EmptyTablesUnique DEF SFlush, FlushClients, FlushServer, TypeOK
  <2>3. cpc' \in [Clients -> ClientStates]
    BY <2>1, AfterTyped DEF TypeOK, ClientStates
  <2>4. ASSUME NEW c \in Clients,
               how[c] = "loses" \/ (how[c] = "dies" /\ cpc[c] = "loop")
        PROVE  Tail(chan[c]) \in Seq(Frames)
    <3>1. chan[c] # << >>
      BY <2>1, <2>4 DEF FlushOutcomes
    <3> QED BY <3>1, HeadTailProperties DEF TypeOK
  <2>5. chan' \in [Clients -> Seq(Frames)]
    BY <2>1, <2>4 DEF TypeOK
  <2> QED BY <1>5, <2>2, <2>3, <2>5, MessagesTyped, BoundsAssumption, MaxClientsAssumption
         DEF SFlush, FlushClients, FlushServer, TypeOK
<1>6. CASE SBcast
  <2>1. pos \in Slots /\ pos + 1 \in 2 .. MaxClients
    BY <1>6, MaxClientsAssumption DEF SBcast, TypeOK, Slots
  <2>2. Frame(cur, sync, 1) \in Frames
    BY FrameTyped DEF TypeOK
  <2>3. chan' \in [Clients -> Seq(Frames)]
    BY <1>6, <2>1, <2>2, PushTyped DEF SBcast, TypeOK
  <2> QED BY <1>6, <2>1, <2>3 DEF SBcast, TypeOK
<1>7. CASE SBcastDone
  BY <1>7, MessagesTyped, MaxClientsAssumption DEF SBcastDone, NextIteration, TypeOK, cvars
<1>8. CASE SSelectClients
  BY <1>8, MaxClientsAssumption DEF SSelectClients, Readable, TypeOK, cvars
<1>9. CASE SStatus
  <2>1. pos \in Slots /\ pos + 1 \in 2 .. MaxClients
    BY <1>9, MaxClientsAssumption DEF SStatus, TypeOK, Slots
  <2>2. fds' \in [Slots -> Clients \cup {None}]
    BY <1>9, <2>1 DEF SStatus, TypeOK
  <2> QED BY <1>9, <2>1, <2>2 DEF SStatus, TypeOK, cvars
<1>10. CASE SStatusDone
  BY <1>10, MessagesTyped, MaxClientsAssumption DEF SStatusDone, NextIteration, TypeOK, cvars
<1>11. CASE SSigpipe
  BY <1>11 DEF SSigpipe, TypeOK, cvars
<1>12. CASE SSigint
  <2>1. Peer # None => Peer \in Clients
    BY MaxClientsAssumption DEF Peer, TypeOK, Slots
  <2>2. Peer # None => \A f \in CutFrames : f \in Frames
    BY <1>12, CutTyped DEF SSigint
  <2>3. chan' \in [Clients -> Seq(Frames)]
    BY <1>12, <2>1, <2>2, PushTyped DEF SSigint, TypeOK
  <2>4. torn' \in Clients \cup {None}
    BY <1>12, <2>1 DEF SSigint, TypeOK
  <2> QED BY <1>12, <2>3, <2>4, MaxClientsAssumption DEF SSigint, TypeOK
<1>13. CASE SGoodbye
  <2>1. pos \in Slots /\ pos + 1 \in 2 .. MaxClients
    BY <1>13, MaxClientsAssumption DEF SGoodbye, TypeOK, Slots
  <2>2. chan' \in [Clients -> Seq(Frames)]
    <3>1. CASE UNCHANGED chan
      BY <3>1 DEF TypeOK
    <3>2. CASE fds[pos] # None /\ chan' = Push(fds[pos], Goodbye)
      BY <2>1, <3>2, MessagesTyped, PushTyped DEF TypeOK
    <3>3. ASSUME fds[pos] # None, Halfway(fds[pos]),
                 NEW f \in Completed(Last(chan[fds[pos]])), NEW r \in Remainders,
                 chan' = [chan EXCEPT ![fds[pos]] = Front(@) \o <<f, r>>]
          PROVE  chan' \in [Clients -> Seq(Frames)]
      <4>1. PICK d \in Clients : d = fds[pos]
        BY <2>1, <3>3 DEF TypeOK
      <4>2. Front(chan[d]) \o <<f, r>> \in Seq(Frames)
        BY <3>3, <4>1, CompletedTyped
      <4> QED BY <3>3, <4>1, <4>2 DEF TypeOK
    <3> QED BY <1>13, <3>1, <3>2, <3>3 DEF SGoodbye
  <2> QED BY <1>13, <2>1, <2>2 DEF SGoodbye, TypeOK
<1>14. CASE SExit
  BY <1>14, EmptyTablesUnique DEF SExit, TypeOK, cvars
<1>15. CASE SCrash
  BY <1>15 DEF SCrash, TypeOK, cvars
<1>16. ASSUME NEW c \in Clients, CConnect(c) PROVE TypeOK'
  <2>1. backlog' \in Seq(Clients)
    <3>1. Append(backlog, c) \in Seq(Clients)
      BY AppendProperties DEF TypeOK
    <3> QED BY <1>16, <3>1 DEF CConnect, TypeOK
  <2> QED BY <1>16, <2>1 DEF CConnect, Goto, TypeOK, ClientStates
<1>17. ASSUME NEW c \in Clients, CSendPid(c) PROVE TypeOK'
  BY <1>17 DEF CSendPid, Goto, TypeOK, ClientStates, svars
<1>18. ASSUME NEW c \in Clients, CRegister(c) \/ CAnswer(c) \/ CQuit(c) \/ CKill(c)
       PROVE  TypeOK'
  BY <1>18 DEF CRegister, CAnswer, CQuit, CKill, Goto, TypeOK, ClientStates, svars
<1>19. ASSUME NEW c \in Clients, CRecv(c) PROVE TypeOK'
  <2>1. Head(chan[c]) \in Frames /\ Tail(chan[c]) \in Seq(Frames)
    BY <1>19, HeadTailProperties DEF CRecv, TypeOK
  <2>2. Apply(ctbl[c], Head(chan[c]).msg) \in Tables
    BY <2>1, ApplyType DEF Frames, TypeOK
  <2> QED BY <1>19, <2>1, <2>2, AfterTyped DEF CRecv, Goto, TypeOK, svars
<1>22. ASSUME NEW c \in Clients, CCutOff(c) PROVE TypeOK'
  <2>1. Head(chan[c]) \in Frames /\ Tail(chan[c]) \in Seq(Frames)
    BY <1>22, HeadTailProperties DEF CCutOff, TypeOK
  <2>2. Apply(ctbl[c], Head(chan[c]).msg) \in Tables
    BY <2>1, ApplyType DEF Frames, TypeOK
  <2> QED BY <1>22, <2>1, <2>2, AfterTyped DEF CCutOff, Goto, TypeOK, svars
<1>23. CASE SBadMask
  BY <1>23, BoundsAssumption DEF SBadMask, TypeOK, cvars
<1>20. ASSUME NEW c \in Clients, CEof(c) PROVE TypeOK'
  <2>1. Apply(ctbl[c], ZeroMsg) \in Tables
    BY MessagesTyped, ApplyType DEF TypeOK
  <2> QED BY <1>20, <2>1 DEF CEof, Goto, TypeOK, ClientStates, svars
<1>21. CASE UNCHANGED vars
  BY <1>21 DEF vars, svars, cvars, TypeOK
<1> QED
  BY <1>1, <1>2, <1>3, <1>4, <1>5, <1>6, <1>7, <1>8, <1>9, <1>10, <1>11, <1>12, <1>13,
     <1>14, <1>15, <1>16, <1>17, <1>18, <1>19, <1>20, <1>21, <1>22, <1>23
     DEF Next, SNext, SRun, CNext, CRun

(* Types, loop indices and the client of a dump are right in every state.  *)
THEOREM TypeCorrect == Spec => []TypeOK
BY TypeInit, TypeStep, PTL DEF Spec
-----------------------------------------------------------------------------
(* A step leaves a table alone, empties it or applies a message to it.     *)
LEMMA UniqueStep == TypeOK /\ UniqueKeys /\ [Next]_vars => UniqueKeys'
<1> SUFFICES ASSUME TypeOK, UniqueKeys, [Next]_vars PROVE UniqueKeys'
  OBVIOUS
<1>1. UniqueKeys' <=> Unique(tbl') /\ \A c \in Clients : Unique(ctbl'[c])
  BY DEF UniqueKeys, Unique, UniqueIn
<1>2. Unique(tbl) /\ \A c \in Clients : Unique(ctbl[c])
  BY DEF UniqueKeys
<1> HIDE DEF UniqueKeys
<1>3. CASE UNCHANGED <<tbl, ctbl>>
  BY <1>1, <1>2, <1>3
<1>4. ASSUME NEW m \in Commands, SCommand(m) PROVE UniqueKeys'
  <2>1. Unique(tbl')
    BY <1>2, <1>4, MessagesTyped, ApplyUnique DEF SCommand, TypeOK
  <2> QED BY <1>1, <1>2, <1>4, <2>1 DEF SCommand, cvars
<1>5. CASE SFlush
  <2>1. tbl' = EmptyTables /\ \A c \in Clients : ctbl'[c] \in {ctbl[c], EmptyTables}
    BY <1>5 DEF SFlush, FlushClients, FlushServer
  <2> QED BY <1>1, <1>2, <2>1, EmptyTablesUnique
<1>6. CASE SExit
  BY <1>1, <1>2, <1>6, EmptyTablesUnique DEF SExit, cvars
<1>7. ASSUME NEW c \in Clients, CRecv(c) PROVE UniqueKeys'
  <2>1. Head(chan[c]) \in Frames
    BY <1>7, HeadTailProperties DEF CRecv, TypeOK
  <2>2. Unique(Apply(ctbl[c], Head(chan[c]).msg))
    BY <1>2, <2>1, ApplyUnique DEF TypeOK, Frames
  <2> QED BY <1>1, <1>2, <1>7, <2>2 DEF CRecv, TypeOK, svars
<1>10. ASSUME NEW c \in Clients, CCutOff(c) PROVE UniqueKeys'
  <2>1. Head(chan[c]) \in Frames
    BY <1>10, HeadTailProperties DEF CCutOff, TypeOK
  <2>2. Unique(Apply(ctbl[c], Head(chan[c]).msg))
    BY <1>2, <2>1, ApplyUnique DEF TypeOK, Frames
  <2> QED BY <1>1, <1>2, <1>10, <2>2 DEF CCutOff, TypeOK, svars
<1>8. ASSUME NEW c \in Clients, CEof(c) PROVE UniqueKeys'
  <2>1. Unique(Apply(ctbl[c], ZeroMsg))
    BY <1>2, MessagesTyped, ApplyUnique DEF TypeOK
  <2> QED BY <1>1, <1>2, <1>8, <2>1 DEF CEof, TypeOK, svars
<1>9. \/ UNCHANGED <<tbl, ctbl>>
      \/ \E m \in Commands : SCommand(m)
      \/ SFlush
      \/ SExit
      \/ \E c \in Clients : CRecv(c) \/ CCutOff(c) \/ CEof(c)
  <2>1. CASE SRun
    BY <2>1 DEF SRun, SAccept, AddFd, AddPid, SDumpEntry, SDumpNotice, SBcast, SBcastDone, SSelectClients,
                SStatus, SStatusDone, SSigpipe, SGoodbye, cvars
  <2>2. CASE SBadMask \/ SSigint \/ SCrash
    BY <2>2 DEF SBadMask, SSigint, SCrash, cvars
  <2>3. ASSUME NEW c \in Clients, CNext(c), ~CRecv(c), ~CCutOff(c), ~CEof(c)
        PROVE  UNCHANGED <<tbl, ctbl>>
    BY <2>3 DEF CNext, CRun, CConnect, CSendPid, CRegister, CAnswer, CQuit, CKill, svars
  <2>4. CASE UNCHANGED vars
    BY <2>4 DEF vars, svars, cvars
  <2> QED BY <2>1, <2>2, <2>3, <2>4 DEF Next, SNext
<1> QED BY <1>3, <1>4, <1>5, <1>6, <1>7, <1>8, <1>9, <1>10

(* No table of the server or of a client ever has two entries with one     *)
(* key: process_sync_mesg appends only what its find did not hit.          *)
THEOREM KeysUnique == Spec => []UniqueKeys
<1>1. Init => UniqueKeys
  BY EmptyTablesUnique DEF Init, UniqueKeys
<1> QED BY <1>1, UniqueStep, TypeCorrect, PTL DEF Spec
-----------------------------------------------------------------------------
(* What SlotsDistinct needs to be inductive: the backlog repeats no        *)
(* client, and has only clients that have connected.                       *)
SlotsInv ==
  /\ SlotsDistinct
  /\ \A i, j \in DOMAIN backlog : backlog[i] = backlog[j] => i = j
  /\ \A i \in DOMAIN backlog : cpc[backlog[i]] # "start"

(* A client never goes back to the states before its pid is sent, and one  *)
(* that has left stays away.                                               *)
LEMMA ProgressStep ==
  ASSUME TypeOK, [Next]_vars, NEW c \in Clients
  PROVE  /\ cpc[c] # "start" => cpc'[c] # "start"
         /\ cpc[c] \notin {"start", "connected"} => cpc'[c] \notin {"start", "connected"}
         /\ Closed(c) => Closed(c)'
<1> USE DEF Closed
<1>1. CASE UNCHANGED cpc
  BY <1>1
<1>2. CASE SFlush
  <2>1. cpc'[c] \in {"dead", cpc[c], After(Head(chan[c]))}
    BY <1>2 DEF SFlush, FlushClients, FlushServer
  <2>2. Closed(c) => cpc'[c] \in {"dead", cpc[c]}
    BY <1>2 DEF SFlush, FlushClients, FlushOutcomes
  <2> QED BY <2>1, <2>2 DEF After
<1>3. ASSUME NEW d \in Clients, CNext(d)
      PROVE  /\ cpc[c] # "start" => cpc'[c] # "start"
             /\ cpc[c] \notin {"start", "connected"} => cpc'[c] \notin {"start", "connected"}
             /\ Closed(c) => Closed(c)'
  <2>1. CASE CConnect(d)
    BY <2>1 DEF CConnect, Goto, TypeOK
  <2>2. CASE CRecv(d) \/ CCutOff(d)
    BY <2>2 DEF CRecv, CCutOff, Goto, TypeOK, After
  <2>3. CASE CSendPid(d) \/ CRegister(d) \/ CAnswer(d) \/ CEof(d) \/ CQuit(d) \/ CKill(d)
    BY <2>3 DEF CSendPid, CRegister, CAnswer, CEof, CQuit, CKill, Goto, TypeOK
  <2> QED BY <1>3, <2>1, <2>2, <2>3 DEF CNext, CRun
<1>4. UNCHANGED cpc \/ SFlush \/ \E d \in Clients : CNext(d)
  <2>1. CASE SRun
    BY <2>1 DEF SRun, SAccept, AddFd, AddPid, SDumpEntry, SDumpNotice, SBcast, SBcastDone, SSelectClients,
                SStatus, SStatusDone, SSigpipe, SGoodbye, SExit, cvars
  <2>2. CASE SBadMask \/ SSigint \/ SCrash \/ \E m \in Commands : SCommand(m)
    BY <2>2 DEF SBadMask, SSigint, SCrash, SCommand, cvars
  <2>3. CASE UNCHANGED vars
    BY <2>3 DEF vars, cvars
  <2> QED BY <2>1, <2>2, <2>3 DEF Next, SNext
<1> QED BY <1>1, <1>2, <1>3, <1>4

(* Only accept fills a slot, with the client that it takes off the queue.  *)
LEMMA SlotsStep == TypeOK /\ SlotsInv /\ [Next]_vars => SlotsInv'
<1> SUFFICES ASSUME TypeOK, SlotsInv, [Next]_vars PROVE SlotsInv'
  OBVIOUS
<1> USE DEF ToSet
<1>0. DOMAIN backlog = 1 .. Len(backlog) /\ Len(backlog) \in Nat
      /\ \A i \in DOMAIN backlog : backlog[i] \in Clients
  BY LenProperties, ElementOfSeq DEF TypeOK
<1>1. CASE UNCHANGED <<fds, backlog>>
  BY <1>0, <1>1, ProgressStep DEF SlotsInv, SlotsDistinct, TypeOK
<1>2. CASE SAccept
  <2>1. /\ DOMAIN backlog' = 1 .. Len(backlog) - 1
        /\ \A i \in 1 .. Len(backlog) - 1 : backlog'[i] = backlog[i + 1]
        /\ Head(backlog) = backlog[1] /\ Len(backlog) >= 1
    BY <1>0, <1>2, HeadTailProperties, LenProperties DEF SAccept, AddFd, AddPid, TypeOK
  <2>2. \A i \in DOMAIN backlog' :
          i + 1 \in DOMAIN backlog /\ backlog'[i] = backlog[i + 1]
    BY <1>0, <2>1
  <2>3. /\ \A i, j \in DOMAIN backlog' : backlog'[i] = backlog'[j] => i = j
        /\ \A i \in DOMAIN backlog' : cpc'[backlog'[i]] # "start"
    BY <1>0, <1>2, <2>1, <2>2 DEF SlotsInv, SAccept, AddFd, AddPid, cvars
  <2>4. /\ backlog[1] \in Clients /\ cpc[backlog[1]] \notin {"start", "connected"}
        /\ \A s \in Slots : fds[s] # None => fds[s] # backlog[1]
        /\ \A i \in DOMAIN backlog' : backlog'[i] # backlog[1]
    BY <1>0, <1>2, <2>1, <2>2 DEF SlotsInv, SlotsDistinct, SAccept, AddFd, AddPid
  <2>5. ASSUME NEW s \in Slots, fds' = [fds EXCEPT ![s] = backlog[1]], fds[s] = None
        PROVE  SlotsDistinct'
    BY <1>0, <1>2, <2>2, <2>4, <2>5 DEF SlotsInv, SlotsDistinct, SAccept, AddFd, AddPid, cvars, TypeOK
  <2>6. ASSUME UNCHANGED fds PROVE SlotsDistinct'
    BY <1>0, <1>2, <2>2, <2>6 DEF SlotsInv, SlotsDistinct, SAccept, AddFd, AddPid, cvars
  <2>7. UNCHANGED fds
        \/ \E s \in Slots : fds[s] = None /\ fds' = [fds EXCEPT ![s] = Head(backlog)]
    BY <1>2 DEF SAccept, AddFd, AddPid
  <2>8. SlotsDistinct'
    <3>1. ASSUME NEW s \in Slots, fds[s] = None, fds' = [fds EXCEPT ![s] = Head(backlog)]
          PROVE  SlotsDistinct'
      <4>1. fds' = [fds EXCEPT ![s] = backlog[1]]
        BY <2>1, <3>1
      <4> QED BY <2>5, <3>1, <4>1
    <3> QED BY <2>6, <2>7, <3>1
  <2> QED BY <2>3, <2>8 DEF SlotsInv
<1>3. CASE SStatus
  <2>1. UNCHANGED <<backlog, cpc>> /\ \A s \in Slots : fds'[s] \in {fds[s], None}
    BY <1>3 DEF SStatus, TypeOK, cvars
  <2> QED BY <2>1 DEF SlotsInv, SlotsDistinct
<1>4. ASSUME NEW c \in Clients, CConnect(c) PROVE SlotsInv'
  <2>1. UNCHANGED fds /\ cpc[c] = "start"
        /\ (UNCHANGED backlog \/ (backlog' = Append(backlog, c) /\ cpc'[c] = "connected"))
    BY <1>4 DEF CConnect, Goto, TypeOK
  <2>2. CASE UNCHANGED backlog
    BY <1>1, <2>1, <2>2
  <2>3. CASE backlog' = Append(backlog, c) /\ cpc'[c] = "connected"
    <3>1. /\ DOMAIN backlog' = 1 .. Len(backlog) + 1
          /\ \A i \in 1 .. Len(backlog) : backlog'[i] = backlog[i]
          /\ backlog'[Len(backlog) + 1] = c
      BY <1>0, <2>3, AppendProperties, LenProperties DEF TypeOK
    <3>2. /\ \A i \in 1 .. Len(backlog) : backlog[i] # c
          /\ \A s \in Slots : fds[s] # None => fds[s] # c
      BY <1>0, <2>1 DEF SlotsInv, SlotsDistinct
    <3>3. /\ \A i, j \in DOMAIN backlog' : backlog'[i] = backlog'[j] => i = j
          /\ \A i \in DOMAIN backlog' : cpc'[backlog'[i]] # "start"
      BY <1>0, <2>3, <3>1, <3>2, ProgressStep DEF SlotsInv
    <3>4. \A s \in Slots : fds[s] # None =>
            fds[s] \in Clients /\ cpc[fds[s]] \notin {"start", "connected"}
      BY DEF SlotsInv, SlotsDistinct, TypeOK
    <3>5. SlotsDistinct'
      BY <1>0, <2>1, <3>1, <3>2, <3>4, ProgressStep DEF SlotsInv, SlotsDistinct
    <3> QED BY <3>3, <3>5 DEF SlotsInv
  <2> QED BY <2>1, <2>2, <2>3
<1>5. UNCHANGED <<fds, backlog>> \/ SAccept \/ SStatus \/ \E c \in Clients : CConnect(c)
  <2>1. CASE SRun
    BY <2>1 DEF SRun, SDumpEntry, SDumpNotice, SBcast, SBcastDone, SSelectClients,
                SStatusDone, SSigpipe, SGoodbye, SExit
  <2>2. CASE SBadMask \/ SSigint \/ SCrash \/ SFlush \/ \E m \in Commands : SCommand(m)
    BY <2>2 DEF SBadMask, SSigint, SCrash, SFlush, FlushClients, FlushServer, SCommand
  <2>3. ASSUME NEW c \in Clients, CNext(c), ~CConnect(c)
        PROVE  UNCHANGED <<fds, backlog>>
    BY <2>3 DEF CNext, CRun, CSendPid, CRegister, CRecv, CAnswer, CCutOff, CEof, CQuit, CKill, svars
  <2>4. CASE UNCHANGED vars
    BY <2>4 DEF vars, svars
  <2> QED BY <2>1, <2>2, <2>3, <2>4 DEF Next, SNext
<1> QED BY <1>1, <1>2, <1>3, <1>4, <1>5

(* All slots are free at first.                                            *)
LEMMA SlotsInit == Init => SlotsInv
<1>1. DOMAIN << >> = 1 .. 0
  BY EmptySeq, LenProperties
<1> QED BY <1>1 DEF Init, SlotsInv, SlotsDistinct

(* A client is in one slot at most, and only once it has been accepted:    *)
(* no broadcast writes a frame to a client twice.                          *)
THEOREM SlotsCorrect == Spec => []SlotsDistinct
<1>1. SlotsInv => SlotsDistinct
  BY DEF SlotsInv
<1> QED BY <1>1, SlotsInit, SlotsStep, TypeCorrect, PTL DEF Spec
-----------------------------------------------------------------------------
(* What FlushReaches needs to be inductive: client_pid_set repeats no      *)
(* client and has none that is still to be accepted, and a client in a     *)
(* slot was there when its pid was added.                                  *)
PidsInv ==
  /\ \A i, j \in DOMAIN pids : pids[i] = pids[j] => i = j
  /\ \A i \in DOMAIN pids : pids[i] \notin ToSet(backlog) /\ cpc[pids[i]] # "start"
  /\ FlushReaches

(* Fewer pids are recorded than there are clients when one is accepted.    *)
LEMMA RoomForPid ==
  ASSUME IsFiniteSet(Clients), NEW p \in Seq(Clients), NEW c \in Clients,
         \A i, j \in DOMAIN p : p[i] = p[j] => i = j,
         \A i \in DOMAIN p : p[i] # c
  PROVE  Len(p) < Cardinality(Clients)
<1> DEFINE q == Append(p, c)
           S == 1 .. Len(p) + 1
<1>0. Len(p) \in Nat /\ DOMAIN p = 1 .. Len(p)
  BY LenProperties
<1>1. /\ q \in [S -> Clients] /\ q[Len(p) + 1] = c
      /\ \A i \in 1 .. Len(p) : q[i] = p[i]
  <2>1. /\ q \in Seq(Clients) /\ Len(q) = Len(p) + 1 /\ q[Len(p) + 1] = c
        /\ \A i \in 1 .. Len(p) : q[i] = p[i]
    BY AppendProperties
  <2> HIDE DEF q
  <2> QED BY <2>1, LenProperties
<1> HIDE DEF q
<1>2. \A i, j \in S : q[i] = q[j] => i = j
  BY <1>0, <1>1
<1>3. IsFiniteSet(S) /\ Cardinality(S) = Len(p) + 1
  BY <1>0, FS_Interval
<1>4. ~(Cardinality(Clients) < Cardinality(S))
  BY <1>1, <1>2, <1>3, FS_PigeonHole
<1>5. Cardinality(Clients) \in Nat
  BY FS_CardinalityType
<1> QED BY <1>0, <1>3, <1>4, <1>5

(* Accept records the pid of the client that it puts in a slot.            *)
LEMMA PidsStep ==
  ASSUME IsFiniteSet(Clients)
  PROVE  TypeOK /\ SlotsInv /\ PidsInv /\ [Next]_vars => PidsInv'
<1> SUFFICES ASSUME TypeOK, SlotsInv, PidsInv, [Next]_vars PROVE PidsInv'
  OBVIOUS
<1> USE DEF ToSet
<1>0. /\ DOMAIN backlog = 1 .. Len(backlog) /\ Len(backlog) \in Nat
      /\ \A i \in DOMAIN backlog : backlog[i] \in Clients
      /\ DOMAIN pids = 1 .. Len(pids) /\ Len(pids) \in Nat
      /\ \A i \in DOMAIN pids : pids[i] \in Clients
  BY LenProperties, ElementOfSeq DEF TypeOK
<1>1. CASE UNCHANGED <<fds, pids, backlog>>
  <2>1. \A i \in DOMAIN pids : cpc'[pids[i]] # "start"
    BY <1>0, ProgressStep DEF PidsInv
  <2>2. FlushReaches'
    BY <1>1, ProgressStep DEF PidsInv, FlushReaches, Monitored
  <2> QED BY <1>1, <2>1, <2>2 DEF PidsInv
<1>2. CASE SAccept
  <2> DEFINE c == Head(backlog)
  <2>1. /\ DOMAIN backlog' = 1 .. Len(backlog) - 1
        /\ \A i \in 1 .. Len(backlog) - 1 : backlog'[i] = backlog[i + 1]
        /\ c = backlog[1] /\ Len(backlog) >= 1
    BY <1>0, <1>2, HeadTailProperties, LenProperties DEF SAccept, AddFd, AddPid, TypeOK
  <2> HIDE DEF c
  <2>2. /\ \A i \in DOMAIN backlog' : i + 1 \in DOMAIN backlog /\ backlog'[i] = backlog[i + 1]
        /\ 1 \in DOMAIN backlog /\ c \in Clients
    BY <1>0, <2>1
  <2>3. /\ \A i \in DOMAIN backlog' : backlog'[i] # c
        /\ \A i \in DOMAIN pids : pids[i] # c
        /\ cpc[c] # "start"
    BY <1>0, <2>1, <2>2 DEF SlotsInv, PidsInv
  <2>5. CASE Len(pids) < MaxClients
    <3>1. /\ DOMAIN pids' = 1 .. Len(pids) + 1
          /\ \A i \in 1 .. Len(pids) : pids'[i] = pids[i]
          /\ pids'[Len(pids) + 1] = c
      <4>1. pids' = Append(pids, c)
        BY <1>2, <2>5 DEF SAccept, AddFd, AddPid, c
      <4> QED BY <1>0, <2>2, <4>1, AppendProperties, LenProperties DEF TypeOK
    <3>2. \A i, j \in DOMAIN pids' : pids'[i] = pids'[j] => i = j
      BY <1>0, <2>3, <3>1 DEF PidsInv
    <3>3. \A i \in DOMAIN pids' : pids'[i] \notin ToSet(backlog') /\ cpc'[pids'[i]] # "start"
      BY <1>0, <1>2, <2>2, <2>3, <3>1 DEF PidsInv, SAccept, AddFd, AddPid, cvars
    <3>4. \A d \in Clients : (\E i \in DOMAIN pids : pids[i] = d) \/ d = c
                              => \E i \in DOMAIN pids' : pids'[i] = d
      BY <1>0, <3>1
    <3>5. FlushReaches'
      <4> SUFFICES ASSUME Cardinality(Clients) <= MaxClients,
                          NEW d \in Clients, Monitored(d)', ~Closed(d)'
                   PROVE  \E i \in DOMAIN pids' : pids'[i] = d
        BY DEF FlushReaches
      <4>1. (Monitored(d) /\ ~Closed(d)) \/ d = c
        BY <1>2 DEF SAccept, AddFd, AddPid, Monitored, TypeOK, Closed, cvars, c
      <4>2. CASE Monitored(d) /\ ~Closed(d)
        <5>1. d \in ToSet(pids)
          BY <4>2 DEF PidsInv, FlushReaches
        <5> QED BY <3>4, <5>1
      <4> QED BY <3>4, <4>1, <4>2
    <3> QED BY <3>2, <3>3, <3>5 DEF PidsInv
  <2>6. CASE ~(Len(pids) < MaxClients)
    <3>1. UNCHANGED pids
      BY <1>2, <2>6 DEF SAccept, AddFd, AddPid
    <3>2. ~(Cardinality(Clients) <= MaxClients)
      <4>1. Len(pids) < Cardinality(Clients)
        BY <2>2, <2>3, RoomForPid DEF PidsInv, TypeOK
      <4> QED BY <1>0, <2>6, <4>1, FS_CardinalityType, MaxClientsAssumption
    <3>3. FlushReaches'
      BY <3>2 DEF FlushReaches
    <3>4. \A i \in DOMAIN pids' : pids'[i] \notin ToSet(backlog') /\ cpc'[pids'[i]] # "start"
      BY <1>2, <2>2, <3>1 DEF PidsInv, SAccept, AddFd, AddPid, cvars
    <3> QED BY <3>1, <3>3, <3>4 DEF PidsInv
  <2> QED BY <2>5, <2>6
<1>3. CASE SStatus
  <2>1. UNCHANGED <<pids, backlog, cpc>> /\ \A s \in Slots : fds'[s] \in {fds[s], None}
    BY <1>3 DEF SStatus, TypeOK, cvars
  <2>2. \A d \in Clients : Monitored(d)' => Monitored(d)
    BY <2>1, NoneAssumption DEF Monitored
  <2> QED BY <2>1, <2>2 DEF PidsInv, FlushReaches, Closed
<1>4. ASSUME NEW c \in Clients, CConnect(c) PROVE PidsInv'
  <2>1. UNCHANGED <<fds, pids>> /\ cpc[c] = "start"
        /\ (UNCHANGED backlog \/ backlog' = Append(backlog, c))
    BY <1>4 DEF CConnect
  <2>2. \A d \in ToSet(backlog') : d \in ToSet(backlog) \/ d = c
    <3>1. DOMAIN Append(backlog, c) = 1 .. Len(backlog) + 1
          /\ \A i \in 1 .. Len(backlog) : Append(backlog, c)[i] = backlog[i]
          /\ Append(backlog, c)[Len(backlog) + 1] = c
      BY <1>0, AppendProperties, LenProperties DEF TypeOK
    <3> QED BY <1>0, <2>1, <3>1
  <2>3. \A i \in DOMAIN pids : pids[i] # c
    BY <2>1 DEF PidsInv
  <2>4. \A i \in DOMAIN pids : pids[i] \notin ToSet(backlog') /\ cpc'[pids[i]] # "start"
    BY <1>0, <2>2, <2>3, ProgressStep DEF PidsInv
  <2>5. FlushReaches'
    BY <2>1, ProgressStep DEF PidsInv, FlushReaches, Monitored
  <2> QED BY <2>1, <2>4, <2>5 DEF PidsInv
<1>5. UNCHANGED <<fds, pids, backlog>> \/ SAccept \/ SStatus \/ \E c \in Clients : CConnect(c)
  <2>1. CASE SRun
    BY <2>1 DEF SRun, SDumpEntry, SDumpNotice, SBcast, SBcastDone, SSelectClients,
                SStatusDone, SSigpipe, SGoodbye, SExit
  <2>2. CASE SBadMask \/ SSigint \/ SCrash \/ SFlush \/ \E m \in Commands : SCommand(m)
    BY <2>2 DEF SBadMask, SSigint, SCrash, SFlush, FlushClients, FlushServer, SCommand
  <2>3. ASSUME NEW c \in Clients, CNext(c), ~CConnect(c)
        PROVE  UNCHANGED <<fds, pids, backlog>>
    BY <2>3 DEF CNext, CRun, CSendPid, CRegister, CRecv, CAnswer, CCutOff, CEof, CQuit, CKill, svars
  <2>4. CASE UNCHANGED vars
    BY <2>4 DEF vars, svars
  <2> QED BY <2>1, <2>2, <2>3, <2>4 DEF Next, SNext
<1> QED BY <1>1, <1>2, <1>3, <1>4, <1>5

(* No pid is recorded at first.                                            *)
LEMMA PidsInit == Init => PidsInv
<1>1. DOMAIN << >> = 1 .. 0
  BY EmptySeq, LenProperties
<1> QED BY <1>1, NoneAssumption DEF Init, PidsInv, FlushReaches, Monitored

(* While no more clients ever connect than client_pid_set has places,      *)
(* FLUSH signals every client that gets broadcasts.                        *)
THEOREM FlushReachesAll ==
  ASSUME IsFiniteSet(Clients)
  PROVE  Spec => []FlushReaches
<1>1. PidsInv => FlushReaches
  BY DEF PidsInv
<1>2. TypeOK /\ SlotsInv /\ PidsInv /\ [Next]_vars => PidsInv'
  BY PidsStep
<1> QED BY <1>1, <1>2, PidsInit, SlotsInit, SlotsStep, TypeCorrect, PTL DEF Spec
-----------------------------------------------------------------------------
(* The shutdown: the loop of the SIGINT handler tells one slot after the   *)
(* other, and nothing that a client does later takes that back.            *)

(* What GoodbyeTold says of one client, and what the handler's loop keeps. *)
Told(c) == c = torn \/ Closed(c) \/ (chan[c] # << >> /\ Last(chan[c]) = Goodbye)

Whole(q) == \A i \in DOMAIN q : ~IsCut(q[i])

(* A cut frame is in the socket of the client the handler remembers.       *)
CutInv == \A c \in Clients : Whole(chan[c]) \/ (c = torn /\ ~Serving)

GoodbyeInv ==
  /\ spc = "goodbye" => \A s \in Slots : s < pos /\ fds[s] # None => Told(fds[s])
  /\ spc = "exited"  => \A s \in Slots : fds[s] # None => Told(fds[s])

(* A write of a whole frame, and a read, leave a socket without cut frames.*)
LEMMA WholeKept ==
  ASSUME NEW q \in Seq(Frames), Whole(q)
  PROVE  /\ \A f \in Frames : ~IsCut(f) => Whole(Append(q, f))
         /\ q # << >> => Whole(Tail(q))
<1>1. ASSUME NEW f \in Frames, ~IsCut(f) PROVE Whole(Append(q, f))
  <2>1. /\ DOMAIN Append(q, f) = 1 .. Len(q) + 1 /\ DOMAIN q = 1 .. Len(q) /\ Len(q) \in Nat
        /\ \A i \in 1 .. Len(q) : Append(q, f)[i] = q[i]
        /\ Append(q, f)[Len(q) + 1] = f
    BY AppendProperties, LenProperties
  <2> QED BY <1>1, <2>1 DEF Whole
<1>2. ASSUME q # << >> PROVE Whole(Tail(q))
  <2>1. /\ DOMAIN Tail(q) = 1 .. Len(q) - 1 /\ DOMAIN q = 1 .. Len(q) /\ Len(q) \in Nat
        /\ \A i \in 1 .. Len(q) - 1 : Tail(q)[i] = q[i + 1]
    BY <1>2, HeadTailProperties, LenProperties
  <2> QED BY <2>1 DEF Whole
<1> QED BY <1>1, <1>2

(* A socket whose last frame is cut has a cut frame.                       *)
LEMMA HalfwayIsCut ==
  ASSUME TypeOK, NEW d \in Clients, Halfway(d) PROVE ~Whole(chan[d])
<1>1. /\ chan[d] \in Seq(Frames) /\ chan[d] # << >> /\ IsCut(chan[d][Len(chan[d])])
  BY DEF TypeOK, Halfway, Last
<1>2. Len(chan[d]) \in DOMAIN chan[d]
  BY <1>1, EmptySeq, LenProperties
<1> QED BY <1>1, <1>2 DEF Whole

(* Only the handler of SIGINT cuts a frame, of the client it remembers.    *)
LEMMA CutStep == TypeOK /\ CutInv /\ [Next]_vars => CutInv'
<1> SUFFICES ASSUME TypeOK, CutInv, [Next]_vars PROVE CutInv'
  OBVIOUS
<1>1. ASSUME UNCHANGED <<torn, chan>>, Serving' => Serving PROVE CutInv'
  BY <1>1 DEF CutInv, Whole
<1>2. ASSUME NEW d \in Clients, NEW f \in Frames, ~IsCut(f), chan' = Push(d, f),
             torn' = torn, Serving' => Serving
      PROVE  CutInv'
  <2> SUFFICES ASSUME NEW c \in Clients, Whole(chan[c])
               PROVE  Whole(chan'[c])
    BY <1>2 DEF CutInv, Whole
  <2>1. chan[c] \in Seq(Frames) /\ chan'[c] \in {chan[c], Append(chan[c], f)}
    BY <1>2 DEF Push, TypeOK
  <2> QED BY <1>2, <2>1, WholeKept
<1>3. ASSUME NEW d \in Clients, chan[d] # << >>, chan' = [chan EXCEPT ![d] = Tail(@)],
             torn' = torn, Serving' => Serving
      PROVE  CutInv'
  <2> SUFFICES ASSUME NEW c \in Clients, Whole(chan[c])
               PROVE  Whole(chan'[c])
    BY <1>3 DEF CutInv, Whole
  <2>1. chan[c] \in Seq(Frames) /\ (chan'[c] = chan[c] \/ (chan[c] # << >> /\ chan'[c] = Tail(chan[c])))
    BY <1>3 DEF TypeOK
  <2> QED BY <2>1, WholeKept
<1>4. CASE SDumpEntry
  <2> DEFINE f == Frame(DumpMsg(cur, dl, tbl[dl][pos + 1]), sync, 1)
  <2>1. tbl[dl][pos + 1] \in EntryType
    <3>1. pos + 1 \in 1 .. Len(tbl[dl]) /\ tbl[dl] \in Seq(EntryType)
      BY <1>4, LenProperties DEF SDumpEntry, TypeOK, Tables
    <3> QED BY <3>1, ElementOfSeq
  <2>2. f \in Frames /\ ~IsCut(f)
    <3>1. DumpMsg(cur, dl, tbl[dl][pos + 1]) \in Msg
      BY <2>1, DumpMsgTyped DEF TypeOK
    <3>2. f \in Frames
      BY <3>1, FrameTyped DEF TypeOK
    <3> QED BY <3>2 DEF IsCut, Frame
  <2>3. newc \in Clients /\ chan' = Push(newc, f) /\ UNCHANGED <<spc, torn>>
    BY <1>4 DEF SDumpEntry, TypeOK
  <2> HIDE DEF f
  <2> QED BY <1>2, <2>2, <2>3 DEF Serving
<1>5. CASE SDumpNotice
  <2> DEFINE f == Frame([cur EXCEPT !.op = "NONE"], Notice(dl), 1)
  <2>1. f \in Frames /\ ~IsCut(f)
    <3>1. [cur EXCEPT !.op = "NONE"] \in Msg
      BY DEF TypeOK, Msg, OpCodes
    <3>2. f \in Frames
      BY <3>1, FrameTyped DEF Notice
    <3> QED BY <3>2 DEF IsCut, Frame
  <2>2. newc \in Clients /\ chan' = Push(newc, f) /\ torn' = torn /\ Serving
    BY <1>5 DEF SDumpNotice, TypeOK, Serving
  <2> HIDE DEF f
  <2> QED BY <1>2, <2>1, <2>2
<1>6. CASE SBcast
  <2>1. pos \in Slots
    BY <1>6, MaxClientsAssumption DEF SBcast, TypeOK, Slots
  <2>2. Frame(cur, sync, 1) \in Frames /\ ~IsCut(Frame(cur, sync, 1))
    <3>1. Frame(cur, sync, 1) \in Frames
      BY FrameTyped DEF TypeOK
    <3> QED BY <3>1 DEF IsCut, Frame
  <2>3. UNCHANGED <<spc, torn>>
    BY <1>6 DEF SBcast
  <2>4. CASE UNCHANGED chan
    BY <1>1, <2>3, <2>4 DEF Serving
  <2>5. CASE fds[pos] # None /\ chan' = Push(fds[pos], Frame(cur, sync, 1))
    <3>1. fds[pos] \in Clients
      BY <2>1, <2>5 DEF TypeOK
    <3> QED BY <1>2, <2>2, <2>3, <2>5, <3>1 DEF Serving
  <2> QED BY <1>6, <2>4, <2>5 DEF SBcast
<1>7. CASE SSigint
  <2>1. CASE UNCHANGED <<chan, torn>>
    BY <1>1, <1>7, <2>1 DEF SSigint, Serving
  <2>2. ASSUME Peer # None, torn' = Peer, NEW f, chan' = Push(Peer, f) PROVE CutInv'
    <3> SUFFICES ASSUME NEW c \in Clients, ~Whole(chan'[c])
                 PROVE  c = torn' /\ ~Serving'
      BY DEF CutInv, Whole
    <3>1. ~Serving' /\ Serving
      BY <1>7 DEF SSigint, Serving
    <3>2. c # Peer => chan'[c] = chan[c]
      BY <2>2 DEF Push, TypeOK
    <3>3. Whole(chan[c])
      BY <3>1 DEF CutInv
    <3> QED BY <2>2, <3>1, <3>2, <3>3
  <2> QED BY <1>7, <2>1, <2>2 DEF SSigint
<1>8. CASE SGoodbye
  <2>0. UNCHANGED <<spc, torn>> /\ spc = "goodbye" /\ ~Serving
    BY <1>8 DEF SGoodbye, Serving
  <2>1. pos \in Slots
    BY <1>8, MaxClientsAssumption DEF SGoodbye, TypeOK, Slots
  <2>2. CASE UNCHANGED chan
    BY <1>1, <2>0, <2>2 DEF Serving
  <2>3. CASE fds[pos] # None /\ chan' = Push(fds[pos], Goodbye)
    <3>1. fds[pos] \in Clients /\ Goodbye \in Frames /\ ~IsCut(Goodbye)
      BY <2>1, <2>3, MessagesTyped DEF TypeOK, IsCut, Goodbye, Frame
    <3> QED BY <1>2, <2>0, <2>3, <3>1 DEF Serving
  <2>4. ASSUME Halfway(fds[pos]), fds[pos] # None, NEW e, chan' = [chan EXCEPT ![fds[pos]] = e]
        PROVE  CutInv'
    <3>1. PICK d \in Clients : d = fds[pos]
      BY <2>1, <2>4 DEF TypeOK
    <3>2. d = torn
      BY <2>4, <3>1, HalfwayIsCut DEF CutInv
    <3>3. \A c \in Clients : c # d => chan'[c] = chan[c]
      BY <2>4, <3>1 DEF TypeOK
    <3> QED BY <2>0, <3>2, <3>3 DEF CutInv, Whole, Serving
  <2> QED BY <1>8, <2>2, <2>3, <2>4 DEF SGoodbye
<1>9. CASE SFlush
  <2>1. torn' = torn /\ Serving
        /\ \A c \in Clients : chan'[c] = chan[c] \/ (chan[c] # << >> /\ chan'[c] = Tail(chan[c]))
    <3>1. PICK how \in [Clients -> {"none", "between", "loses", "dies"}] :
            /\ \A c \in Clients : how[c] \in FlushOutcomes(c)
            /\ chan' = [c \in Clients |->
                          IF how[c] = "loses" \/ (how[c] = "dies" /\ cpc[c] = "loop")
                          THEN Tail(chan[c]) ELSE chan[c]]
      BY <1>9 DEF SFlush, FlushClients
    <3>2. ASSUME NEW c \in Clients, how[c] = "loses" \/ (how[c] = "dies" /\ cpc[c] = "loop")
          PROVE  chan[c] # << >>
      BY <3>1, <3>2 DEF FlushOutcomes
    <3> QED BY <1>9, <3>1, <3>2 DEF SFlush, Serving
  <2> SUFFICES ASSUME NEW c \in Clients PROVE Whole(chan'[c])
    BY DEF CutInv, Whole
  <2>2. Whole(chan[c]) /\ chan[c] \in Seq(Frames)
    BY <2>1 DEF CutInv, TypeOK
  <2> QED BY <2>1, <2>2, WholeKept
<1>10. ASSUME NEW d \in Clients, CNext(d) PROVE CutInv'
  <2>1. UNCHANGED <<spc, torn>>
    BY <1>10 DEF CNext, CRun, CConnect, CSendPid, CRegister, CRecv, CCutOff, CAnswer, CEof, CQuit, CKill, svars
  <2>2. UNCHANGED chan \/ (chan[d] # << >> /\ chan' = [chan EXCEPT ![d] = Tail(@)])
    BY <1>10 DEF CNext, CRun, CConnect, CSendPid, CRegister, CRecv, CCutOff, CAnswer, CEof, CQuit, CKill
  <2> QED BY <1>1, <1>3, <2>1, <2>2 DEF Serving
<1>11. CASE \/ SAccept \/ SBcastDone \/ SSelectClients \/ SStatus \/ SStatusDone \/ SSigpipe
            \/ SExit \/ SCrash \/ SBadMask \/ \E m \in Commands : SCommand(m)
  <2>1. UNCHANGED <<torn, chan>> /\ (Serving' => Serving)
    BY <1>11 DEF SAccept, AddFd, AddPid, SBcastDone, SSelectClients, SStatus, SStatusDone, SSigpipe,
                 SExit, SCrash, SBadMask, SCommand, NextIteration, Serving, cvars
  <2> QED BY <1>1, <2>1
<1>12. CASE UNCHANGED vars
  BY <1>1, <1>12 DEF vars, svars, cvars, Serving
<1> QED
  BY <1>4, <1>5, <1>6, <1>7, <1>8, <1>9, <1>10, <1>11, <1>12 DEF Next, SNext, SRun

(* The last frame is the last one until it is read itself.                 *)
LEMMA LastOfTail ==
  ASSUME NEW q \in Seq(Frames), q # << >>
  PROVE  /\ Tail(q) # << >> => Last(Tail(q)) = Last(q)
         /\ Tail(q) = << >> => Head(q) = Last(q)
<1>1. /\ Len(q) \in Nat /\ Len(q) >= 1 /\ Tail(q) \in Seq(Frames) /\ Len(Tail(q)) = Len(q) - 1
      /\ \A i \in 1 .. Len(q) - 1 : Tail(q)[i] = q[i + 1]
      /\ Head(q) = q[1]
  BY HeadTailProperties, LenProperties, EmptySeq
<1>2. ASSUME Tail(q) # << >> PROVE Last(Tail(q)) = Last(q)
  <2>1. Len(Tail(q)) # 0
    BY <1>1, <1>2, EmptySeq
  <2>2. Len(q) - 1 \in 1 .. Len(q) - 1 /\ (Len(q) - 1) + 1 = Len(q)
    BY <1>1, <2>1
  <2>3. Tail(q)[Len(q) - 1] = q[Len(q)]
    BY <1>1, <2>2
  <2> QED BY <1>1, <2>3 DEF Last
<1>3. ASSUME Tail(q) = << >> PROVE Head(q) = Last(q)
  <2>1. Len(<< >>) = 0
    OBVIOUS
  <2>2. Len(Tail(q)) = 0
    BY <1>3, <2>1
  <2>3. \A n \in Nat : n - 1 = 0 => n = 1
    OBVIOUS
  <2>4. Len(q) - 1 = 0
    BY <1>1, <2>2
  <2>5. Len(q) = 1
    BY <1>1, <2>3, <2>4
  <2> QED BY <1>1, <2>5 DEF Last
<1> QED BY <1>2, <1>3

(* A client that is told stays told until it leaves, whatever clients do.  *)
LEMMA ToldKept ==
  ASSUME TypeOK, NEW c \in Clients, NEW d \in Clients, CNext(d), Told(c)
  PROVE  Told(c)'
<1>0. torn' = torn
  BY DEF CNext, CRun, CConnect, CSendPid, CRegister, CRecv, CCutOff, CAnswer, CEof, CQuit, CKill, svars
<1>1. cpc \in [Clients -> ClientStates] /\ chan[d] \in Seq(Frames)
  BY DEF TypeOK
<1>2. CASE CRecv(d) \/ CCutOff(d)
  <2>1. /\ cpc[d] = "loop" /\ chan[d] # << >>
        /\ \A e \in Clients : e # d => cpc'[e] = cpc[e]
        /\ \A e \in Clients : chan'[e] = IF e = d THEN Tail(chan[e]) ELSE chan[e]
    BY <1>2 DEF CRecv, CCutOff, Goto, TypeOK
  <2>2. CASE c # d
    <3>1. cpc'[c] = cpc[c] /\ chan'[c] = chan[c]
      BY <1>1, <2>1, <2>2
    <3> QED BY <1>0, <3>1 DEF Told, Closed
  <2>4. CASE c = torn
    BY <1>0, <2>4 DEF Told
  <2>3. CASE c = d /\ c # torn
    <3>1. Last(chan[d]) = Goodbye
      BY <2>1, <2>3 DEF Told, Closed
    <3>2. CASE Tail(chan[d]) # << >>
      <4>1. Last(Tail(chan[d])) = Goodbye
        BY <1>1, <2>1, <3>1, <3>2, LastOfTail
      <4>2. chan'[d] = Tail(chan[d])
        BY <2>1
      <4> QED BY <2>3, <3>2, <4>1, <4>2 DEF Told
    <3>3. CASE Tail(chan[d]) = << >>
      <4>1. Head(chan[d]) = Goodbye
        BY <1>1, <2>1, <3>1, <3>3, LastOfTail
      <4>2. After(Goodbye) = "exited"
        BY DEF After, Goodbye, Frame
      <4>3. ~CCutOff(d)
        BY <4>1 DEF CCutOff, IsCut, Goodbye, Frame
      <4>4. cpc'[d] = "exited"
        BY <1>1, <1>2, <4>1, <4>2, <4>3 DEF CRecv, Goto
      <4> QED BY <2>3, <4>4 DEF Told, Closed
    <3> QED BY <3>2, <3>3
  <2> QED BY <2>2, <2>3, <2>4
<1>3. CASE ~CRecv(d) /\ ~CCutOff(d)
  <2>1. chan' = chan /\ (cpc[d] \in {"exited", "dead"} => cpc'[d] = cpc[d])
        /\ \A e \in Clients : e # d => cpc'[e] = cpc[e]
    BY <1>1, <1>3 DEF CNext, CRun, CConnect, CSendPid, CRegister, CAnswer, CEof, CQuit, CKill, Goto
  <2>2. Closed(c) => Closed(c)'
    BY <2>1 DEF Closed
  <2> QED BY <1>0, <2>1, <2>2 DEF Told
<1> QED BY <1>2, <1>3

(* The loop of the handler passes a slot only when its client is told.     *)
LEMMA GoodbyeStep == TypeOK /\ CutInv /\ GoodbyeInv /\ [Next]_vars => GoodbyeInv'
<1> SUFFICES ASSUME TypeOK, CutInv, GoodbyeInv, [Next]_vars PROVE GoodbyeInv'
  OBVIOUS
<1>1. CASE SGoodbye
  <2>1. /\ spc = "goodbye" /\ spc' = "goodbye" /\ pos < MaxClients /\ pos' = pos + 1
        /\ UNCHANGED <<fds, cpc, torn>> /\ pos \in Slots /\ pos \in Nat
    BY <1>1, MaxClientsAssumption DEF SGoodbye, TypeOK, Slots
  <2>2. CASE fds[pos] = None /\ UNCHANGED chan
    <3> SUFFICES ASSUME NEW s \in Slots, s < pos + 1, fds[s] # None PROVE Told(fds[s])'
      BY <2>1 DEF GoodbyeInv
    <3>1. s < pos
      BY <2>1, <2>2, MaxClientsAssumption DEF Slots
    <3>2. Told(fds[s])
      BY <2>1, <3>1 DEF GoodbyeInv
    <3> QED BY <2>1, <2>2, <3>2 DEF Told, Closed
  <2>3. CASE fds[pos] # None /\ chan' = Push(fds[pos], Goodbye)
    <3>1. PICK d \in Clients : d = fds[pos]
      BY <2>1, <2>3 DEF TypeOK
    <3>2. /\ \A c \in Clients : c # d => chan'[c] = chan[c]
          /\ chan'[d] = Append(chan[d], Goodbye)
      BY <2>3, <3>1 DEF Push, TypeOK
    <3>3. Told(d)'
      <4>1. chan[d] \in Seq(Frames) /\ Goodbye \in Frames
        BY MessagesTyped DEF TypeOK
      <4>2. /\ Len(Append(chan[d], Goodbye)) = Len(chan[d]) + 1
            /\ Append(chan[d], Goodbye)[Len(chan[d]) + 1] = Goodbye
            /\ Append(chan[d], Goodbye) # << >>
        BY <4>1, AppendProperties
      <4> QED BY <3>2, <4>2 DEF Told, Last
    <3> SUFFICES ASSUME NEW s \in Slots, s < pos + 1, fds[s] # None PROVE Told(fds[s])'
      BY <2>1 DEF GoodbyeInv
    <3>4. CASE fds[s] = d
      BY <2>1, <3>3, <3>4
    <3>5. CASE fds[s] # d
      <4>1. s < pos /\ fds[s] \in Clients
        BY <2>1, <3>1, <3>5, MaxClientsAssumption DEF Slots, TypeOK
      <4>2. Told(fds[s])
        BY <2>1, <4>1 DEF GoodbyeInv
      <4>3. PICK c \in Clients : c = fds[s]
        BY <4>1
      <4>4. chan'[c] = chan[c] /\ cpc'[c] = cpc[c] /\ fds' = fds /\ torn' = torn
        BY <2>1, <3>2, <3>5, <4>3
      <4> QED BY <4>2, <4>3, <4>4 DEF Told, Closed
    <3> QED BY <3>4, <3>5
  <2>4. ASSUME fds[pos] # None, Halfway(fds[pos]), NEW e, chan' = [chan EXCEPT ![fds[pos]] = e]
        PROVE  GoodbyeInv'
    <3>1. PICK d \in Clients : d = fds[pos]
      BY <2>1, <2>4 DEF TypeOK
    <3>2. d = torn
      BY <2>4, <3>1, HalfwayIsCut DEF CutInv
    <3>3. \A c \in Clients : c # d => chan'[c] = chan[c]
      BY <2>4, <3>1 DEF TypeOK
    <3> SUFFICES ASSUME NEW s \in Slots, s < pos + 1, fds[s] # None PROVE Told(fds[s])'
      BY <2>1 DEF GoodbyeInv
    <3>4. CASE fds[s] = d
      BY <2>1, <3>2, <3>4 DEF Told
    <3>5. CASE fds[s] # d
      <4>1. s < pos /\ fds[s] \in Clients
        BY <2>1, <3>1, <3>5, MaxClientsAssumption DEF Slots, TypeOK
      <4>2. Told(fds[s])
        BY <2>1, <4>1 DEF GoodbyeInv
      <4>3. PICK c \in Clients : c = fds[s]
        BY <4>1
      <4>4. chan'[c] = chan[c] /\ cpc'[c] = cpc[c] /\ fds' = fds /\ torn' = torn
        BY <2>1, <3>3, <3>5, <4>3
      <4> QED BY <4>2, <4>3, <4>4 DEF Told, Closed
    <3> QED BY <3>4, <3>5
  <2> QED BY <1>1, <2>2, <2>3, <2>4 DEF SGoodbye
<1>2. CASE SExit
  <2>1. spc = "goodbye" /\ pos = MaxClients /\ spc' = "exited" /\ UNCHANGED <<fds, cpc, chan, torn>>
    BY <1>2 DEF SExit, cvars
  <2>2. \A s \in Slots : s < pos
    BY <2>1, MaxClientsAssumption DEF Slots
  <2>3. \A s \in Slots : fds[s] # None => Told(fds[s])
    BY <2>1, <2>2 DEF GoodbyeInv
  <2> QED BY <2>1, <2>3 DEF GoodbyeInv, Told, Closed
<1>3. CASE SSigint
  <2>1. spc' = "goodbye" /\ pos' = 2 /\ \A s \in Slots : ~(s < 2)
    BY <1>3, MaxClientsAssumption DEF SSigint, Slots
  <2> QED BY <2>1 DEF GoodbyeInv
<1>4. CASE SSigpipe \/ SBadMask \/ SCrash
  BY <1>4 DEF SSigpipe, SBadMask, SCrash, GoodbyeInv
<1>5. CASE \/ SAccept \/ SDumpEntry \/ SDumpNotice \/ SBcast \/ SBcastDone \/ SSelectClients
           \/ SStatus \/ SStatusDone \/ SFlush \/ \E m \in Commands : SCommand(m)
  <2>1. spc' \notin {"goodbye", "exited"}
    BY <1>5 DEF SAccept, SDumpEntry, SDumpNotice, SBcast, SBcastDone, SSelectClients,
                SStatus, SStatusDone, SFlush, SCommand, NextIteration
  <2> QED BY <2>1 DEF GoodbyeInv
<1>6. ASSUME NEW d \in Clients, CNext(d) PROVE GoodbyeInv'
  <2>1. UNCHANGED <<spc, pos, fds>>
    BY <1>6 DEF CNext, CRun, CConnect, CSendPid, CRegister, CRecv, CAnswer, CCutOff, CEof, CQuit, CKill, svars
  <2>2. \A s \in Slots : fds[s] # None => fds[s] \in Clients
    BY DEF TypeOK
  <2>3. \A c \in Clients : Told(c) => Told(c)'
    BY <1>6, ToldKept
  <2>4. \A s \in Slots : fds[s] # None /\ Told(fds[s]) => Told(fds[s])'
    BY <2>1, <2>2, <2>3
  <2> QED BY <2>1, <2>4 DEF GoodbyeInv
<1>7. CASE UNCHANGED vars
  BY <1>7 DEF vars, svars, cvars, GoodbyeInv, Told, Closed
<1> QED
  BY <1>1, <1>2, <1>3, <1>4, <1>5, <1>6, <1>7 DEF Next, SNext, SRun

(* When the SIGINT handler of the server has ended, every monitored client *)
(* has left, or the shutdown frame is the last thing that it will read,    *)
(* but for the one whose frame the signal cut.                             *)
THEOREM ShutdownTold == Spec => []GoodbyeTold
<1>1. Init => CutInv /\ GoodbyeInv
  <2> SUFFICES ASSUME Init PROVE CutInv /\ GoodbyeInv
    OBVIOUS
  <2>1. DOMAIN << >> = {}
    OBVIOUS
  <2> QED BY <2>1 DEF Init, GoodbyeInv, CutInv, Whole
<1>2. GoodbyeInv => GoodbyeTold
  <2> SUFFICES ASSUME GoodbyeInv, spc = "exited", NEW c \in Clients, Monitored(c), c # torn
               PROVE  Told(c)
    BY DEF GoodbyeTold, Told
  <2>1. PICK s \in Slots : fds[s] = c
    BY DEF Monitored
  <2> QED BY <2>1, NoneAssumption DEF GoodbyeInv
<1> QED BY <1>1, <1>2, TypeCorrect, CutStep, GoodbyeStep, PTL DEF Spec
-----------------------------------------------------------------------------
(***************************************************************************)
(* A client that applies what is on its way to it, to the end, comes to    *)
(* the server's tables, or under FLUSH to tables that lack none of the     *)
(* server's routes.  From this: Replica and InSync without FLUSH, and      *)
(* NoRouteMissing with it.  Both hypotheses are needed: with FLUSH a frame *)
(* on its way is applied after the lists were emptied; and if the strings  *)
(* of a field differ in length (Uniform forbids it), bytes of a longer one *)
(* survive in the dump of a shorter one.                                   *)
(***************************************************************************)

(* No string can be overlaid by a shorter one.                             *)
Uniform == /\ \A d, e \in Dests : Len(d) = Len(e)
           /\ \A v, w \in Vias : Len(v) = Len(w)

(* A set of numbers that is not empty has a least element.                 *)
LEMMA LeastOf ==
  ASSUME NEW R, IsWellFoundedOn(R, Nat), \A x, y \in Nat : y < x => <<y, x>> \in R,
         NEW T \in SUBSET Nat, T # {}
  PROVE  \E x \in T : \A y \in T : x <= y
<1>1. PICK x \in T : \A y \in T : ~ (<<y, x>> \in R)
  BY WFMin
<1>2. \A y \in T : ~ (y < x)
  BY <1>1
<1> QED BY <1>2

(* Induction over the naturals in the form the provers can use: about a    *)
(* set and not about an operator.                                          *)
LEMMA SetInduction ==
  ASSUME NEW S \in SUBSET Nat, 0 \in S, \A n \in S : n + 1 \in S
  PROVE  S = Nat
<1> SUFFICES ASSUME S # Nat PROVE FALSE
  OBVIOUS
<1>1. IsWellFoundedOn(OpToRel(<, Nat), Nat)
  BY NatLessThanWellFounded
<1>2. \A x, y \in Nat : y < x => <<y, x>> \in OpToRel(<, Nat)
  BY DEF OpToRel
<1>3. PICK x \in Nat \ S : \A y \in Nat \ S : x <= y
  BY <1>1, <1>2, LeastOf
<1>4. x # 0 /\ x - 1 \in Nat
  BY <1>3
<1>5. x - 1 \in S
  BY <1>3, <1>4
<1> QED BY <1>3, <1>5

(* Applying the frames of q to t one after the other ends in u             *)
ReplaysTo(t, q, u) ==
  \E h \in [0 .. Len(q) -> Tables] :
     /\ h[0] = t /\ h[Len(q)] = u
     /\ \A i \in 1 .. Len(q) : h[i] = Apply(h[i - 1], q[i].msg)

(* An empty socket leaves the tables as they are.                          *)
LEMMA ReplaysNothing ==
  ASSUME NEW t \in Tables, NEW u \in Tables
  PROVE  ReplaysTo(t, << >>, u) <=> t = u
<1>1. Len(<< >>) = 0
  OBVIOUS
<1>2. ASSUME t = u PROVE ReplaysTo(t, << >>, u)
  <2> DEFINE h == [i \in 0 .. 0 |-> t]
  <2>1. h \in [0 .. Len(<< >>) -> Tables] /\ h[0] = t /\ h[Len(<< >>)] = u
    BY <1>1, <1>2
  <2>2. \A i \in 1 .. Len(<< >>) : FALSE
    BY <1>1
  <2> HIDE DEF h
  <2> QED BY <2>1, <2>2 DEF ReplaysTo
<1>3. ASSUME ReplaysTo(t, << >>, u) PROVE t = u
  BY <1>1, <1>3 DEF ReplaysTo
<1> QED BY <1>2, <1>3

(* One more frame at the end applies one more message to the result.       *)
LEMMA ReplaysAppend ==
  ASSUME NEW t \in Tables, NEW q \in Seq(Frames), NEW u \in Tables, NEW f \in Frames,
         ReplaysTo(t, q, u)
  PROVE  ReplaysTo(t, Append(q, f), Apply(u, f.msg))
<1> DEFINE n == Len(q)
           r == Append(q, f)
           w == Apply(u, f.msg)
<1>1. PICK h \in [0 .. n -> Tables] :
        /\ h[0] = t /\ h[n] = u
        /\ \A i \in 1 .. n : h[i] = Apply(h[i - 1], q[i].msg)
  BY DEF ReplaysTo
<1>2. n \in Nat
  BY LenProperties
<1>3. /\ r \in Seq(Frames) /\ Len(r) = n + 1 /\ r[n + 1] = f
      /\ \A i \in 1 .. n : r[i] = q[i]
  BY AppendProperties
<1>4. w \in Tables
  BY ApplyType DEF Frames
<1> HIDE DEF n, r, w
<1> DEFINE g == [i \in 0 .. n + 1 |-> IF i <= n THEN h[i] ELSE w]
<1>5. g \in [0 .. n + 1 -> Tables]
  BY <1>1, <1>2, <1>4
<1>6. g[0] = t /\ g[n + 1] = w /\ g[n] = u /\ \A i \in 0 .. n : g[i] = h[i]
  BY <1>1, <1>2
<1> HIDE DEF g
<1>7. \A i \in 1 .. n + 1 : g[i] = Apply(g[i - 1], r[i].msg)
  <2> SUFFICES ASSUME NEW i \in 1 .. n + 1 PROVE g[i] = Apply(g[i - 1], r[i].msg)
    OBVIOUS
  <2>1. CASE i \in 1 .. n
    <3>1. g[i] = h[i] /\ g[i - 1] = h[i - 1] /\ r[i] = q[i]
      BY <1>2, <1>3, <1>6, <2>1
    <3> QED BY <1>1, <2>1, <3>1
  <2>2. CASE i = n + 1
    <3>1. g[i] = w /\ g[i - 1] = u /\ r[i] = f
      BY <1>2, <1>3, <1>6, <2>2
    <3> QED BY <3>1 DEF w
  <2> QED BY <1>2, <2>1, <2>2
<1>8. ReplaysTo(t, r, w)
  BY <1>3, <1>5, <1>6, <1>7 DEF ReplaysTo
<1> QED BY <1>8 DEF r, w

(* Reading the first frame leaves the result of the whole unchanged.       *)
LEMMA ReplaysTail ==
  ASSUME NEW t \in Tables, NEW q \in Seq(Frames), q # << >>, NEW u \in Tables,
         ReplaysTo(t, q, u)
  PROVE  ReplaysTo(Apply(t, Head(q).msg), Tail(q), u)
<1> DEFINE n == Len(q)
           r == Tail(q)
<1>1. PICK h \in [0 .. n -> Tables] :
        /\ h[0] = t /\ h[n] = u
        /\ \A i \in 1 .. n : h[i] = Apply(h[i - 1], q[i].msg)
  BY DEF ReplaysTo
<1>2. n \in Nat \ {0}
  BY EmptySeq
<1>3. r \in Seq(Frames) /\ Len(r) = n - 1 /\ (\A i \in 1 .. n - 1 : r[i] = q[i + 1])
      /\ Head(q) = q[1]
  BY HeadTailProperties
<1> HIDE DEF n, r
<1> DEFINE g == [i \in 0 .. n - 1 |-> h[i + 1]]
<1>4. g \in [0 .. n - 1 -> Tables]
  BY <1>1, <1>2
<1>5. /\ g[0] = h[1] /\ g[n - 1] = u
      /\ \A i \in 1 .. n - 1 : g[i] = h[i + 1] /\ g[i - 1] = h[i]
  BY <1>1, <1>2
<1> HIDE DEF g
<1>6. h[1] = Apply(t, Head(q).msg)
  BY <1>1, <1>2, <1>3
<1>7. ASSUME NEW i \in 1 .. n - 1 PROVE g[i] = Apply(g[i - 1], r[i].msg)
  <2>1. i + 1 \in 1 .. n /\ (i + 1) - 1 = i
    BY <1>2
  <2>2. h[i + 1] = Apply(h[i], q[i + 1].msg)
    BY <1>1, <2>1
  <2>3. g[i] = h[i + 1] /\ g[i - 1] = h[i] /\ r[i] = q[i + 1]
    BY <1>3, <1>5
  <2> QED BY <2>2, <2>3
<1>8. ReplaysTo(h[1], r, u)
  <2>1. /\ Len(r) = n - 1
        /\ g[0] = h[1] /\ g[n - 1] = u
        /\ \A i \in 1 .. n - 1 : g[i] = Apply(g[i - 1], r[i].msg)
    BY <1>3, <1>5, <1>7
  <2> QED BY <1>4, <2>1 DEF ReplaysTo
<1> QED BY <1>6, <1>8 DEF r

(* Every client can read what is in its socket to the end.                 *)
LEMMA ReplaysExist ==
  ASSUME NEW q \in Seq(Frames), NEW t \in Tables
  PROVE  \E u \in Tables : ReplaysTo(t, q, u)
<1> DEFINE S == {n \in Nat : \A p \in Seq(Frames) : Len(p) = n =>
                               \E u \in Tables : ReplaysTo(t, p, u)}
<1>1. 0 \in S
  <2> SUFFICES ASSUME NEW p \in Seq(Frames), Len(p) = 0
               PROVE  \E u \in Tables : ReplaysTo(t, p, u)
    OBVIOUS
  <2>1. p = << >>
    BY EmptySeq
  <2> QED BY <2>1, ReplaysNothing
<1>2. ASSUME NEW n \in S PROVE n + 1 \in S
  <2> SUFFICES ASSUME NEW p \in Seq(Frames), Len(p) = n + 1
               PROVE  \E u \in Tables : ReplaysTo(t, p, u)
    OBVIOUS
  <2>1. n \in Nat /\ n + 1 \in 1 .. Len(p) /\ \A i \in 1 .. n : i \in 1 .. Len(p)
    OBVIOUS
  <2>2. p[n + 1] \in Frames /\ \A i \in 1 .. n : p[i] \in Frames
    BY <2>1, ElementOfSeq
  <2> DEFINE b == SubSeq(p, 1, n)
  <2>3. b \in Seq(Frames) /\ Len(b) = n /\ \A i \in 1 .. n : b[i] = p[i]
    BY <2>1, <2>2, SubSeqProperties
  <2> HIDE DEF b
  <2>4. PICK u \in Tables : ReplaysTo(t, b, u)
    BY <2>3
  <2>5. /\ Append(b, p[n + 1]) \in Seq(Frames) /\ Len(Append(b, p[n + 1])) = n + 1
        /\ Append(b, p[n + 1])[n + 1] = p[n + 1]
        /\ \A i \in 1 .. n : Append(b, p[n + 1])[i] = b[i]
    BY <2>2, <2>3, AppendProperties
  <2>6. \A i \in 1 .. n + 1 : Append(b, p[n + 1])[i] = p[i]
    <3> SUFFICES ASSUME NEW i \in 1 .. n + 1 PROVE Append(b, p[n + 1])[i] = p[i]
      OBVIOUS
    <3>1. i = n + 1 \/ i \in 1 .. n
      BY <2>1
    <3> QED BY <2>3, <2>5, <3>1
  <2>7. Append(b, p[n + 1]) = p
    BY <2>5, <2>6, SeqEqual
  <2>8. ReplaysTo(t, p, Apply(u, p[n + 1].msg))
    BY <2>2, <2>3, <2>4, <2>7, ReplaysAppend
  <2>9. Apply(u, p[n + 1].msg) \in Tables
    BY <2>2, ApplyType DEF Frames
  <2> QED BY <2>8, <2>9
<1>3. S = Nat
  <2>1. S \in SUBSET Nat
    OBVIOUS
  <2> HIDE DEF S
  <2> QED BY <1>1, <1>2, <2>1, SetInduction
<1>4. Len(q) \in S
  BY <1>3, LenProperties
<1> QED BY <1>4

(* The recursive function of Replay ends where a chain of tables does.     *)
LEMMA ReplayIs ==
  ASSUME TypeOK, NEW c \in Clients, NEW u, ReplaysTo(ctbl[c], chan[c], u)
  PROVE  Replay(c) = u
<1> DEFINE q == chan[c]
           t == ctbl[c]
           n == Len(q)
           G(g) == g = [i \in 0 .. n |-> IF i = 0 THEN t ELSE Apply(g[i - 1], q[i].msg)]
           r == CHOOSE g : G(g)
<1>1. n \in Nat
  BY LenProperties DEF TypeOK
<1>2. Replay(c) = r[n]
  BY DEF Replay
<1>3. PICK h \in [0 .. n -> Tables] :
        /\ h[0] = t /\ h[n] = u
        /\ \A i \in 1 .. n : h[i] = Apply(h[i - 1], q[i].msg)
  BY DEF ReplaysTo
<1> HIDE DEF q, t, n
<1>4. G(h)
  <2>1. \A i \in 0 .. n : h[i] = IF i = 0 THEN t ELSE Apply(h[i - 1], q[i].msg)
    BY <1>1, <1>3
  <2> QED BY <2>1
<1>5. G(r)
  <2> HIDE DEF G
  <2> QED BY <1>4
<1> HIDE DEF r
<1>6. \A i \in 0 .. n : r[i] = IF i = 0 THEN t ELSE Apply(r[i - 1], q[i].msg)
  BY <1>5
<1> HIDE DEF G
<1> DEFINE S == {i \in Nat : i \in 0 .. n => r[i] = h[i]}
<1>7. 0 \in S
  BY <1>1, <1>3, <1>6
<1>8. ASSUME NEW i \in S PROVE i + 1 \in S
  <2> SUFFICES ASSUME i + 1 \in 0 .. n PROVE r[i + 1] = h[i + 1]
    OBVIOUS
  <2>1. i \in Nat /\ i \in 0 .. n /\ i + 1 \in 1 .. n /\ i + 1 # 0 /\ (i + 1) - 1 = i
    BY <1>1
  <2>2. r[i] = h[i]
    BY <2>1
  <2>3. h[i + 1] = Apply(h[i], q[i + 1].msg)
    BY <1>3, <2>1
  <2>4. r[i + 1] = Apply(r[i], q[i + 1].msg)
    BY <1>6, <2>1
  <2> QED BY <2>2, <2>3, <2>4
<1>9. S = Nat
  <2>1. S \in SUBSET Nat
    OBVIOUS
  <2> HIDE DEF S
  <2> QED BY <1>7, <1>8, <2>1, SetInduction
<1>10. r[n] = h[n]
  BY <1>1, <1>9
<1> QED BY <1>2, <1>3, <1>10
-----------------------------------------------------------------------------
(* Every entry of table t, of layer l, was typed by the administrator.     *)
Genuine(t, l) ==
  \A i \in DOMAIN t :
    IF l = "L3" THEN t[i].dest \in Dests /\ t[i].mask \in Masks /\ t[i].via \in Vias
    ELSE t[i].dest \in Macs /\ t[i].mask = 0 /\ t[i].via = << >>

(* process_sync_mesg stores only what the administrator typed.             *)
LEMMA ProcessGenuine ==
  ASSUME NEW m \in Commands, NEW t \in Seq(EntryType), Genuine(t, m.l)
  PROVE  Genuine(Process(t, m), m.l)
<1>0. m \in Msg /\ DOMAIN t = 1 .. Len(t) /\ Len(t) \in Nat
  BY MessagesTyped, LenProperties
<1>1. CASE m.op = "CREATE" /\ Hits(t, m) = {}
  <2>1. IF m.l = "L3"
        THEN Entry(m).dest \in Dests /\ Entry(m).mask \in Masks /\ Entry(m).via \in Vias
        ELSE Entry(m).dest \in Macs /\ Entry(m).mask = 0 /\ Entry(m).via = << >>
    BY <1>1 DEF Commands, Entry, NoneMsg, ZeroMsg
  <2> DEFINE u == Append(t, Entry(m))
  <2>2. /\ DOMAIN u = 1 .. Len(t) + 1 /\ u[Len(t) + 1] = Entry(m)
        /\ \A i \in 1 .. Len(t) : u[i] = t[i]
    BY <1>0, EntryTyped, AppendProperties, LenProperties
  <2>3. Process(t, m) = u
    BY <1>1 DEF Process, Create
  <2> HIDE DEF u
  <2> QED BY <1>0, <2>1, <2>2, <2>3 DEF Genuine
<1>2. CASE m.op = "UPDATE" /\ m.l = "L3" /\ Hits(t, m) # {}
  <2> DEFINE k == Find(t, m)
             u == [t EXCEPT ![k] = [@ EXCEPT !.via = m.via]]
  <2>1. k \in 1 .. Len(t)
    BY <1>0, <1>2, FindHits
  <2>2. \A i \in 1 .. Len(t) : t[i] \in EntryType
    BY ElementOfSeq
  <2>3. m.via \in Vias
    BY <1>2 DEF Commands, NoneMsg, ZeroMsg
  <2>4. DOMAIN u = 1 .. Len(t)
    BY <1>0
  <2>5. \A i \in 1 .. Len(t) : /\ u[i].dest = t[i].dest /\ u[i].mask = t[i].mask
                               /\ u[i].via \in {t[i].via, m.via}
    BY <1>0, <2>1, <2>2 DEF EntryType
  <2>6. Process(t, m) = u
    BY <1>2 DEF Process, Update
  <2> HIDE DEF u, k
  <2> QED BY <1>0, <1>2, <2>3, <2>4, <2>5, <2>6 DEF Genuine
<1>3. CASE m.op = "DELETE" /\ Hits(t, m) # {}
  <2> DEFINE k == Find(t, m)
             u == RemoveAt(t, k)
  <2>1. k \in 1 .. Len(t)
    BY <1>0, <1>3, FindHits
  <2>2. /\ DOMAIN u = 1 .. Len(t) - 1
        /\ \A j \in 1 .. Len(t) - 1 : u[j] = IF j < k THEN t[j] ELSE t[j + 1]
    BY <2>1, RemoveAtIndices, LenProperties
  <2>3. Process(t, m) = u
    BY <1>3 DEF Process, Delete
  <2> HIDE DEF u, k
  <2>4. \A j \in DOMAIN u : \E i \in DOMAIN t : u[j] = t[i]
    BY <1>0, <2>1, <2>2
  <2> QED BY <2>3, <2>4 DEF Genuine
<1>4. CASE Process(t, m) = t
  BY <1>4
<1>5. Process(t, m) = t \/ (m.op = "CREATE" /\ Hits(t, m) = {})
      \/ (m.op = "UPDATE" /\ m.l = "L3" /\ Hits(t, m) # {})
      \/ (m.op = "DELETE" /\ Hits(t, m) # {})
  <2>1. m.op \in OpCodes /\ m.l \in Layers
    BY <1>0 DEF Msg
  <2>2. CASE m.op = "CREATE"
    BY <2>2 DEF Process, Create
  <2>3. CASE m.op = "UPDATE"
    BY <2>1, <2>3 DEF Process, Update
  <2>4. CASE m.op = "DELETE"
    BY <2>4 DEF Process, Delete
  <2>5. CASE m.op = "NONE"
    BY <2>5 DEF Process
  <2> QED BY <2>1, <2>2, <2>3, <2>4, <2>5 DEF OpCodes
<1> QED BY <1>1, <1>2, <1>3, <1>4, <1>5

(* What the server's own variables satisfy while it serves: the shared     *)
(* message of a dump holds only strings a later one covers entirely.       *)
ServerInv ==
  /\ Serving => \A l \in Layers : Genuine(tbl[l], l)
  /\ spc = "select" => cur = ZeroMsg /\ dl = "L3"
  /\ spc = "dump" =>
       /\ pos <= Len(tbl[dl])
       /\ dl = "L3" => cur.dest \in {<< >>} \cup Dests /\ cur.via \in {<< >>} \cup Vias
       /\ dl = "L2" => cur.dest \in {<< >>} \cup Dests \cup Macs

(* The message of a dump creates exactly the entry it was built from.      *)
LEMMA DumpMsgFaithful ==
  ASSUME Uniform, TypeOK, ServerInv, SDumpEntry
  PROVE  LET m == DumpMsg(cur, dl, tbl[dl][pos + 1])
         IN  /\ m \in Msg /\ m.op = "CREATE" /\ m.l = dl
             /\ Entry(m) = tbl[dl][pos + 1]
             /\ dl = "L3" => m.dest \in Dests /\ m.via \in Vias
             /\ dl = "L2" => m.dest \in Macs
<1> DEFINE e == tbl[dl][pos + 1]
           m == DumpMsg(cur, dl, e)
<1>1. tbl[dl] \in Seq(EntryType) /\ pos + 1 \in 1 .. Len(tbl[dl]) /\ dl \in Layers
  BY LenProperties DEF SDumpEntry, TypeOK, Tables
<1>2. e \in EntryType /\ pos + 1 \in DOMAIN tbl[dl]
  BY <1>1, ElementOfSeq, LenProperties
<1>3. Genuine(tbl[dl], dl)
  BY <1>1 DEF ServerInv, SDumpEntry, Serving
<1>4. cur \in Msg /\ Len(<< >>) = 0
  BY DEF TypeOK
<1>5. IF dl = "L3" THEN e.dest \in Dests /\ e.mask \in Masks /\ e.via \in Vias
      ELSE e.dest \in Macs /\ e.mask = 0 /\ e.via = << >>
  BY <1>2, <1>3 DEF Genuine
<1> HIDE DEF e
<1>6. m \in Msg /\ m.op = "CREATE" /\ m.l = dl
  BY <1>1, <1>2, <1>4, DumpMsgTyped DEF DumpMsg
<1>7. e.dest \in Str /\ e.via \in Str /\ cur.dest \in Str /\ cur.via \in Str
      /\ Len(e.dest) \in Nat /\ Len(e.via) \in Nat
  BY <1>2, <1>4, LenProperties DEF EntryType, Msg, Str
<1>8. CASE dl = "L3"
  <2>1. Len(cur.dest) <= Len(e.dest) /\ Len(cur.via) <= Len(e.via)
    BY <1>4, <1>5, <1>7, <1>8 DEF ServerInv, SDumpEntry, Uniform
  <2>2. Overlay(e.dest, cur.dest) = e.dest /\ Overlay(e.via, cur.via) = e.via
    BY <1>7, <2>1, OverlayNotLonger
  <2>3. m.dest = e.dest /\ m.mask = e.mask /\ m.via = e.via
    BY <1>8, <2>2 DEF DumpMsg
  <2>4. Entry(m) = e
    BY <1>2, <1>6, <1>8, <2>3 DEF Entry, EntryType
  <2> QED BY <1>5, <1>6, <1>8, <2>3, <2>4 DEF e
<1>9. CASE dl = "L2"
  <2>1. Len(cur.dest) <= Len(e.dest)
    BY <1>4, <1>5, <1>7, <1>9, MacsAssumption DEF ServerInv, SDumpEntry
  <2>2. Overlay(e.dest, cur.dest) = e.dest
    BY <1>7, <2>1, OverlayNotLonger
  <2>3. m.dest = e.dest
    BY <2>2 DEF DumpMsg
  <2>4. Entry(m) = e
    BY <1>2, <1>5, <1>6, <1>9, <2>3 DEF Entry, EntryType
  <2> QED BY <1>5, <1>6, <1>9, <2>3, <2>4 DEF e
<1>10. dl = "L3" \/ dl = "L2"
  BY <1>1
<1> QED BY <1>8, <1>9, <1>10

(* Every action keeps what the server's own loop relies on.                *)
LEMMA ServerStep ==
  ASSUME Uniform
  PROVE  TypeOK /\ ServerInv /\ [Next]_vars => ServerInv'
<1> SUFFICES ASSUME TypeOK, ServerInv, [Next]_vars PROVE ServerInv'
  OBVIOUS
<1> USE DEF Serving
<1>1. CASE UNCHANGED <<tbl, spc, cur, dl, pos>>
  BY <1>1 DEF ServerInv
<1>2. CASE SAccept
  <2>1. tbl' = tbl /\ cur' = ZeroMsg /\ dl' = "L3" /\ pos' = 0 /\ spc' = "dump" /\ spc = "select"
    BY <1>2 DEF SAccept, AddFd, AddPid, ServerInv
  <2>2. Len(tbl["L3"]) \in Nat
    BY LenProperties DEF TypeOK, Tables
  <2>3. ZeroMsg.dest = << >> /\ ZeroMsg.via = << >>
    BY DEF ZeroMsg
  <2> QED BY <2>1, <2>2, <2>3 DEF ServerInv
<1>3. CASE SDumpEntry
  <2> DEFINE m == DumpMsg(cur, dl, tbl[dl][pos + 1])
  <2>1. /\ dl = "L3" => m.dest \in Dests /\ m.via \in Vias
        /\ dl = "L2" => m.dest \in Macs
    BY <1>3, DumpMsgFaithful
  <2>2. cur' = m /\ pos' = pos + 1 /\ UNCHANGED <<tbl, spc, dl>> /\ spc = "dump"
        /\ pos < Len(tbl[dl])
    BY <1>3 DEF SDumpEntry
  <2>3. Len(tbl[dl]) \in Nat /\ pos \in Nat
    BY LenProperties DEF TypeOK, Tables
  <2> HIDE DEF m
  <2> QED BY <2>1, <2>2, <2>3 DEF ServerInv
<1>4. CASE SDumpNotice
  <2>1. spc = "dump" /\ tbl' = tbl /\ cur \in Msg
    BY <1>4 DEF SDumpNotice, TypeOK
  <2>2. CASE dl = "L3"
    <3>1. cur' = [cur EXCEPT !.op = "NONE"] /\ dl' = "L2" /\ pos' = 0 /\ spc' = spc
      BY <1>4, <2>2 DEF SDumpNotice
    <3>2. cur'.dest = cur.dest
      BY <2>1, <3>1 DEF Msg
    <3>3. Len(tbl["L2"]) \in Nat
      BY LenProperties DEF TypeOK, Tables
    <3>4. dl' = "L2" /\ pos' = 0 /\ spc' = "dump" /\ tbl' = tbl
      BY <2>1, <3>1
    <3> QED BY <2>1, <2>2, <3>2, <3>3, <3>4 DEF ServerInv
  <2>3. CASE dl # "L3"
    <3>1. NextIteration
      BY <1>4, <2>3 DEF SDumpNotice
    <3> QED BY <2>1, <3>1 DEF NextIteration, ServerInv
  <2> QED BY <2>2, <2>3
<1>5. ASSUME NEW m \in Commands, SCommand(m) PROVE ServerInv'
  <2>1. tbl' = Apply(tbl, m) /\ spc = "select" /\ spc' = "bcast" /\ m \in Msg
    BY <1>5, MessagesTyped DEF SCommand
  <2>2. /\ m.l \in Layers /\ Genuine(tbl[m.l], m.l) /\ tbl[m.l] \in Seq(EntryType)
    BY <2>1 DEF ServerInv, TypeOK, Tables, Msg
  <2>3. Genuine(Process(tbl[m.l], m), m.l)
    BY <2>2, ProcessGenuine
  <2>4. /\ tbl'[m.l] = Process(tbl[m.l], m)
        /\ \A l \in Layers : l # m.l => tbl'[l] = tbl[l]
    BY <2>1, <2>2 DEF Apply, TypeOK, Tables
  <2>5. \A l \in Layers : Genuine(tbl'[l], l)
    BY <2>1, <2>3, <2>4 DEF ServerInv
  <2> QED BY <2>1, <2>5 DEF ServerInv, Genuine
<1>6. CASE SBcast \/ SStatus
  BY <1>6 DEF SBcast, SStatus, ServerInv
<1>7. CASE SBcastDone \/ SStatusDone
  BY <1>7 DEF SBcastDone, SStatusDone, NextIteration, ServerInv
<1>8. CASE SSelectClients
  BY <1>8 DEF SSelectClients, ServerInv
<1>9. CASE SSigpipe \/ SSigint \/ SGoodbye \/ SExit \/ SBadMask \/ SCrash
  <2>1. spc' \notin {"select", "dump", "bcast", "status"}
    BY <1>9 DEF SSigpipe, SSigint, SGoodbye, SExit, SBadMask, SCrash
  <2> QED BY <2>1 DEF ServerInv
<1>10. ASSUME NEW c \in Clients, CNext(c) PROVE UNCHANGED <<tbl, spc, cur, dl, pos>>
  BY <1>10 DEF CNext, CRun, CConnect, CSendPid, CRegister, CRecv, CAnswer, CCutOff, CEof, CQuit, CKill, svars
<1>11. CASE UNCHANGED vars
  BY <1>1, <1>11 DEF vars, svars
<1>12. CASE SFlush
  <2>1. tbl' = EmptyTables /\ spc' = "bcast"
    BY <1>12 DEF SFlush, FlushServer
  <2>2. DOMAIN << >> = 1 .. 0
    BY EmptySeq, LenProperties
  <2>3. \A l \in Layers : Genuine(<< >>, l)
    BY <2>2 DEF Genuine
  <2> QED BY <2>1, <2>3 DEF ServerInv, EmptyTables, Genuine
<1> QED
  BY <1>1, <1>2, <1>3, <1>4, <1>5, <1>6, <1>7, <1>8, <1>9, <1>10, <1>11, <1>12
     DEF Next, SNext, SRun

(* A client that was not accepted yet has been sent nothing.               *)
FreshInv ==
  Serving =>
    /\ \A c \in Clients :
         cpc[c] = "start" \/ c \in ToSet(backlog) => ctbl[c] = EmptyTables /\ chan[c] = << >>
    /\ spc = "dump" => newc \notin ToSet(backlog) /\ cpc[newc] \notin {"start", "connected"}

(* A client that is not yet accepted has received nothing.                 *)
LEMMA FreshStep == TypeOK /\ SlotsInv /\ FreshInv /\ [Next]_vars => FreshInv'
<1> SUFFICES ASSUME TypeOK, SlotsInv, FreshInv, [Next]_vars PROVE FreshInv'
  OBVIOUS
<1> USE DEF Serving
<1>1. CASE SAccept
  <2> DEFINE c == Head(backlog)
  <2>1. /\ DOMAIN backlog = 1 .. Len(backlog) /\ DOMAIN backlog' = 1 .. Len(backlog) - 1
        /\ \A i \in 1 .. Len(backlog) - 1 : backlog'[i] = backlog[i + 1]
        /\ c = backlog[1] /\ Len(backlog) \in Nat /\ Len(backlog) >= 1
    BY <1>1, HeadTailProperties, LenProperties, EmptySeq DEF SAccept, AddFd, AddPid, TypeOK
  <2> HIDE DEF c
  <2>2. /\ \A i \in DOMAIN backlog' : i + 1 \in DOMAIN backlog /\ backlog'[i] = backlog[i + 1]
        /\ 1 \in DOMAIN backlog
    BY <2>1
  <2>3. c \notin ToSet(backlog') /\ cpc[c] # "start"
    BY <2>1, <2>2 DEF SlotsInv, ToSet
  <2>4. \A d \in ToSet(backlog') : d \in ToSet(backlog)
    BY <2>2 DEF ToSet
  <2>5. newc' = c /\ cpc[c] # "connected" /\ UNCHANGED <<cpc, ctbl, chan>> /\ spc = "select"
    BY <1>1 DEF SAccept, AddFd, AddPid, cvars, c
  <2> QED BY <2>3, <2>4, <2>5 DEF FreshInv
<1>2. CASE SDumpEntry \/ SDumpNotice
  <2>1. /\ spc = "dump" /\ UNCHANGED <<backlog, cpc, ctbl>>
        /\ \A c \in Clients : c # newc => chan'[c] = chan[c]
    BY <1>2 DEF SDumpEntry, SDumpNotice, Push, TypeOK
  <2>2. spc' = "dump" => newc' = newc
    BY <1>2 DEF SDumpEntry, SDumpNotice, NextIteration
  <2>3. newc \notin ToSet(backlog) /\ cpc[newc] \notin {"start", "connected"}
    BY <2>1 DEF FreshInv
  <2> QED BY <2>1, <2>2, <2>3 DEF FreshInv
<1>3. CASE SBcast
  <2>1. /\ spc = "bcast" /\ spc' = spc /\ UNCHANGED <<backlog, cpc, ctbl>>
        /\ \A c \in Clients : c # fds[pos] => chan'[c] = chan[c]
        /\ fds[pos] = None => chan' = chan
    BY <1>3, NoneAssumption DEF SBcast, Push, TypeOK
  <2>2. pos \in Slots
    BY <1>3, MaxClientsAssumption DEF SBcast, TypeOK, Slots
  <2>3. fds[pos] # None => fds[pos] \notin ToSet(backlog) /\ cpc[fds[pos]] # "start"
    BY <2>2 DEF SlotsInv, SlotsDistinct
  <2> QED BY <2>1, <2>3 DEF FreshInv
<1>4. ASSUME NEW c \in Clients, CConnect(c) PROVE FreshInv'
  <2>1. UNCHANGED <<spc, newc, ctbl, chan>> /\ cpc[c] = "start" /\ cpc' = [cpc EXCEPT ![c] = cpc'[c]]
        /\ cpc'[c] # "start" /\ (UNCHANGED backlog \/ backlog' = Append(backlog, c))
    BY <1>4 DEF CConnect, Goto, TypeOK
  <2>2. \A d \in ToSet(backlog') : d \in ToSet(backlog) \/ d = c
    <3>1. /\ DOMAIN Append(backlog, c) = 1 .. Len(backlog) + 1 /\ Len(backlog) \in Nat
          /\ \A i \in 1 .. Len(backlog) : Append(backlog, c)[i] = backlog[i]
          /\ Append(backlog, c)[Len(backlog) + 1] = c
          /\ DOMAIN backlog = 1 .. Len(backlog)
      BY AppendProperties, LenProperties DEF TypeOK
    <3> QED BY <2>1, <3>1 DEF ToSet
  <2>3. spc = "dump" => newc \in Clients
    BY DEF TypeOK
  <2> QED BY <2>1, <2>2, <2>3 DEF FreshInv, TypeOK
<1>5. ASSUME NEW c \in Clients, CRecv(c) PROVE FreshInv'
  <2>1. /\ UNCHANGED svars /\ chan[c] # << >> /\ cpc'[c] \notin {"start", "connected"}
        /\ \A d \in Clients : d # c => ctbl'[d] = ctbl[d] /\ chan'[d] = chan[d] /\ cpc'[d] = cpc[d]
    BY <1>5 DEF CRecv, Goto, After, TypeOK
  <2>2. spc = "dump" => newc \in Clients
    BY DEF TypeOK
  <2> QED BY <2>1, <2>2 DEF FreshInv, svars
<1>6. ASSUME NEW c \in Clients,
             CSendPid(c) \/ CRegister(c) \/ CAnswer(c) \/ CQuit(c) \/ CKill(c)
      PROVE  FreshInv'
  <2>1. /\ UNCHANGED <<spc, newc, backlog, ctbl, chan>>
        /\ \A d \in Clients : cpc'[d] = "start" => cpc[d] = "start"
        /\ \A d \in Clients : cpc[d] \notin {"start", "connected"} => cpc'[d] \notin {"start", "connected"}
    BY <1>6 DEF CSendPid, CRegister, CAnswer, CQuit, CKill, Goto, TypeOK, svars
  <2>2. spc = "dump" => newc \in Clients
    BY DEF TypeOK
  <2> QED BY <2>1, <2>2 DEF FreshInv
<1>7. ASSUME NEW c \in Clients, CEof(c) \/ CCutOff(c) PROVE FreshInv'
  BY <1>7 DEF CEof, CCutOff, Gone, FreshInv, svars
<1>8. CASE SSigpipe \/ SSigint \/ SGoodbye \/ SExit \/ SBadMask \/ SCrash
  BY <1>8 DEF SSigpipe, SSigint, SGoodbye, SExit, SBadMask, SCrash, FreshInv
<1>9. CASE SBcastDone \/ SSelectClients \/ SStatus \/ SStatusDone \/ \E m \in Commands : SCommand(m)
  <2>1. /\ UNCHANGED <<backlog, cpc, ctbl, chan>> /\ spc' # "dump"
        /\ spc \in {"select", "dump", "bcast", "status"}
    BY <1>9 DEF SBcastDone, SSelectClients, SStatus, SStatusDone, SCommand, NextIteration, cvars
  <2> QED BY <2>1 DEF FreshInv
<1>10. CASE UNCHANGED vars
  BY <1>10 DEF vars, svars, cvars, FreshInv
<1>11. CASE SFlush
  <2>1. spc = "select" /\ spc' = "bcast" /\ UNCHANGED backlog /\ FlushClients
    BY <1>11 DEF SFlush
  <2>2. ASSUME NEW c \in Clients
        PROVE  /\ cpc'[c] = "start" => cpc[c] = "start"
               /\ ctbl[c] = EmptyTables /\ chan[c] = << >> =>
                    ctbl'[c] = EmptyTables /\ chan'[c] = << >>
    <3>1. PICK how \in [Clients -> {"none", "between", "loses", "dies"}] :
             /\ \A d \in Clients : how[d] \in FlushOutcomes(d)
             /\ ctbl' = [d \in Clients |-> IF how[d] = "none" THEN ctbl[d] ELSE EmptyTables]
             /\ chan' = [d \in Clients |-> IF how[d] = "loses" \/ (how[d] = "dies" /\ cpc[d] = "loop")
                                            THEN Tail(chan[d]) ELSE chan[d]]
             /\ cpc'  = [d \in Clients |-> CASE how[d] = "dies"  -> "dead"
                                             [] how[d] = "loses" -> After(Head(chan[d]))
                                             [] OTHER -> cpc[d]]
      BY <2>1 DEF FlushClients
    <3>2. cpc'[c] = CASE how[c] = "dies"  -> "dead"
                      [] how[c] = "loses" -> After(Head(chan[c]))
                      [] OTHER -> cpc[c]
      BY <3>1
    <3>3. After(Head(chan[c])) # "start"
      BY DEF After
    <3>4. how[c] \in {"none", "between", "loses", "dies"}
      BY <3>1
    <3>5. CASE how[c] = "dies"
      <4>1. cpc'[c] = "dead"
        BY <3>2, <3>5
      <4>2. chan[c] = << >> => ~(cpc[c] = "loop")
        BY <3>1, <3>5 DEF FlushOutcomes
      <4>3. ctbl'[c] = EmptyTables /\ (chan[c] = << >> => chan'[c] = << >>)
        BY <3>1, <3>5, <4>2
      <4> QED BY <4>1, <4>3
    <3>6. CASE how[c] = "loses"
      <4>1. cpc'[c] # "start"
        BY <3>2, <3>3, <3>6
      <4>2. chan[c] # << >>
        BY <3>1, <3>6 DEF FlushOutcomes
      <4> QED BY <4>1, <4>2
    <3>7. CASE how[c] \in {"none", "between"}
      <4>1. cpc'[c] = cpc[c]
        BY <3>2, <3>7
      <4>2. chan'[c] = chan[c]
        BY <3>1, <3>7
      <4>3. ctbl[c] = EmptyTables => ctbl'[c] = EmptyTables
        BY <3>1
      <4> QED BY <4>1, <4>2, <4>3
    <3> QED BY <3>4, <3>5, <3>6, <3>7
  <2> QED BY <2>1, <2>2 DEF FreshInv
<1> QED
  BY <1>1, <1>2, <1>3, <1>4, <1>5, <1>6, <1>7, <1>8, <1>9, <1>10, <1>11
     DEF Next, SNext, SRun, CNext, CRun
-----------------------------------------------------------------------------
(* Every key of list u, of layer l, is in list t.                          *)
CoversIn(t, u, l) ==
  \A i \in DOMAIN u : \E j \in DOMAIN t :
     t[j].dest = u[i].dest /\ (l = "L3" => t[j].mask = u[i].mask)

Covers(T, U) == \A l \in Layers : CoversIn(T[l], U[l], l)

(* What a client's tables may differ from the server's: by routes that a   *)
(* FLUSH did not remove, and without FLUSH not at all.                     *)
Fits(T, U) == Covers(T, U) /\ (Flush = FALSE => T = U)

(* Two equal pairs of tables fit.                                          *)
LEMMA FitsSelf == ASSUME NEW T PROVE Fits(T, T)
BY DEF Fits, Covers, CoversIn

(* A message that both apply leaves no key to the server alone; a DELETE   *)
(* needs that the server has the key once.                                 *)
LEMMA ProcessCovers ==
  ASSUME NEW m \in Msg, NEW t \in Seq(EntryType), NEW u \in Seq(EntryType),
         CoversIn(t, u, m.l), m.op = "DELETE" => UniqueIn(u, m.l)
  PROVE  CoversIn(Process(t, m), Process(u, m), m.l)
<1> DEFINE Same(e, f) == e.dest = f.dest /\ (m.l = "L3" => e.mask = f.mask)
<1>0. /\ DOMAIN t = 1 .. Len(t) /\ Len(t) \in Nat /\ DOMAIN u = 1 .. Len(u) /\ Len(u) \in Nat
      /\ \A i \in 1 .. Len(t) : t[i] \in EntryType
      /\ \A i \in 1 .. Len(u) : u[i] \in EntryType
  BY LenProperties, ElementOfSeq
<1>1. \A i \in DOMAIN u : \E j \in DOMAIN t : Same(t[j], u[i])
  BY DEF CoversIn
<1>2. Same(Entry(m), m)
  BY DEF Entry
<1>3. \A e : SameKey(e, m) <=> Same(e, m)
  BY DEF SameKey
<1>4. CASE m.op = "CREATE"
  <2>1. ASSUME NEW v \in Seq(EntryType), DOMAIN v = 1 .. Len(v), Len(v) \in Nat
        PROVE  /\ \A i \in DOMAIN v : i \in DOMAIN Create(v, m) /\ Create(v, m)[i] = v[i]
               /\ \E i \in DOMAIN Create(v, m) : Same(Create(v, m)[i], m)
               /\ \A i \in DOMAIN Create(v, m) :
                    Same(Create(v, m)[i], m) \/ (i \in DOMAIN v /\ Create(v, m)[i] = v[i])
    <3>1. CASE Hits(v, m) = {}
      <4>1. /\ DOMAIN Append(v, Entry(m)) = 1 .. Len(v) + 1
            /\ Append(v, Entry(m))[Len(v) + 1] = Entry(m)
            /\ \A i \in 1 .. Len(v) : Append(v, Entry(m))[i] = v[i]
        BY EntryTyped, AppendProperties, LenProperties
      <4>2. Create(v, m) = Append(v, Entry(m))
        BY <3>1 DEF Create
      <4> DEFINE w == Append(v, Entry(m))
      <4> HIDE DEF w
      <4>3. DOMAIN w = 1 .. Len(v) + 1 /\ w[Len(v) + 1] = Entry(m) /\ \A i \in DOMAIN v : w[i] = v[i]
        BY <2>1, <4>1 DEF w
      <4>4. DOMAIN v \subseteq DOMAIN w /\ Len(v) + 1 \in DOMAIN w
        BY <2>1, <4>3
      <4>5. \A i \in DOMAIN w : i \in DOMAIN v \/ i = Len(v) + 1
        BY <2>1, <4>3
      <4>6. Same(w[Len(v) + 1], m)
        BY <1>2, <4>3
      <4> QED BY <4>2, <4>3, <4>4, <4>5, <4>6 DEF w
    <3>2. CASE Hits(v, m) # {}
      <4>1. \E i \in DOMAIN v : Same(v[i], m)
        BY <1>3, <3>2 DEF Hits
      <4> QED BY <3>2, <4>1 DEF Create
    <3> QED BY <3>1, <3>2
  <2> DEFINE a == Create(t, m)
             b == Create(u, m)
  <2>2. /\ \A j \in DOMAIN t : j \in DOMAIN a /\ a[j] = t[j]
        /\ \E j \in DOMAIN a : Same(a[j], m)
    BY <1>0, <2>1
  <2>3. \A i \in DOMAIN b : Same(b[i], m) \/ (i \in DOMAIN u /\ b[i] = u[i])
    BY <1>0, <2>1
  <2> HIDE DEF a, b
  <2>4. ASSUME NEW i \in DOMAIN b PROVE \E j \in DOMAIN a : Same(a[j], b[i])
    <3>1. CASE Same(b[i], m)
      BY <2>2, <3>1
    <3>2. CASE i \in DOMAIN u /\ b[i] = u[i]
      BY <1>1, <2>2, <3>2
    <3> QED BY <2>3, <3>1, <3>2
  <2>5. Process(t, m) = a /\ Process(u, m) = b
    BY <1>4 DEF Process, a, b
  <2> QED BY <2>4, <2>5 DEF CoversIn
<1>5. CASE m.op = "UPDATE"
  <2>1. ASSUME NEW v \in Seq(EntryType), DOMAIN v = 1 .. Len(v),
               \A i \in 1 .. Len(v) : v[i] \in EntryType
        PROVE  /\ DOMAIN Update(v, m) = DOMAIN v
               /\ \A i \in DOMAIN v : Same(Update(v, m)[i], v[i])
    <3>1. CASE Update(v, m) = v
      BY <3>1
    <3>2. CASE Hits(v, m) # {} /\ Update(v, m) = [v EXCEPT ![Find(v, m)] = [@ EXCEPT !.via = m.via]]
      <4> DEFINE k == Find(v, m)
                 w == [v EXCEPT ![k] = [@ EXCEPT !.via = m.via]]
      <4>1. k \in DOMAIN v
        BY <3>2, FindHits
      <4>2. DOMAIN w = DOMAIN v /\ w[k] = [v[k] EXCEPT !.via = m.via]
            /\ \A i \in DOMAIN v : i # k => w[i] = v[i]
        BY <2>1, <4>1
      <4> HIDE DEF w, k
      <4>3. w[k].dest = v[k].dest /\ w[k].mask = v[k].mask
        BY <2>1, <4>1, <4>2 DEF EntryType
      <4>4. \A i \in DOMAIN v : Same(w[i], v[i])
        BY <4>2, <4>3
      <4> QED BY <3>2, <4>2, <4>4 DEF w, k
    <3> QED BY <3>1, <3>2 DEF Update
  <2> DEFINE a == Update(t, m)
             b == Update(u, m)
  <2>2. DOMAIN a = DOMAIN t /\ \A j \in DOMAIN t : Same(a[j], t[j])
    BY <1>0, <2>1
  <2>3. DOMAIN b = DOMAIN u /\ \A i \in DOMAIN u : Same(b[i], u[i])
    BY <1>0, <2>1
  <2>4. Process(t, m) = a /\ Process(u, m) = b
    BY <1>5 DEF Process
  <2> HIDE DEF a, b
  <2>5. ASSUME NEW i \in DOMAIN b PROVE \E j \in DOMAIN a : Same(a[j], b[i])
    <3>1. PICK j \in DOMAIN t : Same(t[j], u[i])
      BY <1>1, <2>3
    <3>2. Same(a[j], t[j]) /\ Same(b[i], u[i]) /\ j \in DOMAIN a
      BY <2>2, <2>3
    <3> QED BY <3>1, <3>2
  <2> QED BY <2>4, <2>5 DEF CoversIn
<1>6. CASE m.op = "DELETE"
  <2>1. ASSUME NEW v \in Seq(EntryType), DOMAIN v = 1 .. Len(v), Len(v) \in Nat,
               NEW k \in DOMAIN v
        PROVE  /\ \A j \in DOMAIN v : j # k => \E i \in DOMAIN RemoveAt(v, k) : RemoveAt(v, k)[i] = v[j]
               /\ \A i \in DOMAIN RemoveAt(v, k) : \E j \in DOMAIN v : j # k /\ RemoveAt(v, k)[i] = v[j]
    <3> DEFINE w == RemoveAt(v, k)
    <3>0. /\ w \in Seq(EntryType) /\ Len(w) = Len(v) - 1
          /\ \A j \in 1 .. Len(v) - 1 : w[j] = IF j < k THEN v[j] ELSE v[j + 1]
      BY <2>1, RemoveAtIndices
    <3> HIDE DEF w
    <3>1. /\ DOMAIN w = 1 .. Len(v) - 1
          /\ \A j \in 1 .. Len(v) - 1 : w[j] = IF j < k THEN v[j] ELSE v[j + 1]
      BY <3>0, LenProperties
    <3>2. k \in 1 .. Len(v)
      BY <2>1
    <3>3. ASSUME NEW j \in DOMAIN v, j # k PROVE \E i \in DOMAIN w : w[i] = v[j]
      <4>1. CASE j < k
        <5>1. j \in 1 .. Len(v) - 1
          BY <2>1, <3>2, <4>1
        <5> QED BY <3>1, <4>1, <5>1
      <4>2. CASE j > k
        <5>1. j - 1 \in 1 .. Len(v) - 1 /\ ~(j - 1 < k) /\ (j - 1) + 1 = j
          BY <2>1, <3>2, <4>2
        <5>2. w[j - 1] = v[j]
          BY <3>1, <5>1
        <5> QED BY <3>1, <5>1, <5>2
      <4> QED BY <2>1, <3>2, <3>3, <4>1, <4>2
    <3>4. ASSUME NEW i \in DOMAIN w PROVE \E j \in DOMAIN v : j # k /\ w[i] = v[j]
      <4>1. CASE i < k
        <5>1. i \in DOMAIN v /\ i # k
          BY <2>1, <3>1, <4>1
        <5> QED BY <3>1, <4>1, <5>1
      <4>2. CASE ~(i < k)
        <5>1. i + 1 \in DOMAIN v /\ i + 1 # k
          BY <2>1, <3>1, <3>2, <4>2
        <5> QED BY <3>1, <4>2, <5>1
      <4> QED BY <4>1, <4>2
    <3> QED BY <3>3, <3>4 DEF w
  <2>2. ASSUME NEW e, ~Same(e, m), \E j \in DOMAIN t : Same(t[j], e)
        PROVE  \E j \in DOMAIN Delete(t, m) : Same(Delete(t, m)[j], e)
    <3>1. CASE Hits(t, m) = {}
      BY <2>2, <3>1 DEF Delete
    <3>2. CASE Hits(t, m) # {}
      <4>1. PICK j \in DOMAIN t : Same(t[j], e)
        BY <2>2
      <4> DEFINE k == Find(t, m)
      <4>2. k \in DOMAIN t /\ Same(t[k], m)
        BY <1>3, <3>2, FindHits
      <4>3. Delete(t, m) = RemoveAt(t, k)
        BY <3>2 DEF Delete
      <4> HIDE DEF k
      <4>4. j # k
        BY <2>2, <4>1, <4>2
      <4>5. PICK i \in DOMAIN RemoveAt(t, k) : RemoveAt(t, k)[i] = t[j]
        BY <1>0, <2>1, <4>2, <4>4
      <4> QED BY <4>1, <4>3, <4>5
    <3> QED BY <3>1, <3>2
  <2>3. ASSUME NEW i \in DOMAIN Delete(u, m)
        PROVE  \E j \in DOMAIN u : Delete(u, m)[i] = u[j] /\ ~Same(u[j], m)
    <3>1. CASE Hits(u, m) = {}
      BY <1>3, <2>3, <3>1 DEF Delete, Hits
    <3>2. CASE Hits(u, m) # {}
      <4> DEFINE k == Find(u, m)
      <4>1. k \in DOMAIN u /\ Same(u[k], m)
        BY <1>3, <3>2, FindHits
      <4>2. Delete(u, m) = RemoveAt(u, k)
        BY <3>2 DEF Delete
      <4> HIDE DEF k
      <4>3. PICK j \in DOMAIN u : j # k /\ RemoveAt(u, k)[i] = u[j]
        <5>1. i \in DOMAIN RemoveAt(u, k)
          BY <2>3, <4>2
        <5>2. \A h \in DOMAIN RemoveAt(u, k) : \E j \in DOMAIN u : j # k /\ RemoveAt(u, k)[h] = u[j]
          BY <1>0, <2>1, <4>1
        <5> QED BY <5>1, <5>2
      <4>4. Same(u[j], m) => Same(u[j], u[k])
        BY <4>1
      <4>5. ~Same(u[j], m)
        BY <1>6, <4>1, <4>3, <4>4 DEF UniqueIn
      <4> QED BY <4>2, <4>3, <4>5
    <3> QED BY <3>1, <3>2
  <2> DEFINE a == Delete(t, m)
             b == Delete(u, m)
  <2>4. ASSUME NEW i \in DOMAIN b PROVE \E j \in DOMAIN a : Same(a[j], b[i])
    <3>1. PICK j \in DOMAIN u : b[i] = u[j] /\ ~Same(u[j], m)
      BY <2>3, <2>4
    <3>2. \E h \in DOMAIN t : Same(t[h], u[j])
      BY <1>1, <3>1
    <3>3. \E h \in DOMAIN a : Same(a[h], u[j])
      BY <2>2, <3>1, <3>2
    <3> QED BY <3>1, <3>3
  <2>5. Process(t, m) = a /\ Process(u, m) = b
    BY <1>6 DEF Process
  <2> HIDE DEF a, b
  <2> QED BY <2>4, <2>5 DEF CoversIn
<1>7. CASE m.op = "NONE"
  BY <1>7 DEF Process
<1> QED BY <1>4, <1>5, <1>6, <1>7 DEF Msg, OpCodes

(* So a message that is applied to both tables keeps them fitting.         *)
LEMMA FitsApply ==
  ASSUME NEW T \in Tables, NEW U \in Tables, NEW m \in Msg, Fits(T, U),
         m.op = "DELETE" => Unique(U)
  PROVE  Fits(Apply(T, m), Apply(U, m))
<1>1. /\ m.l \in Layers /\ T[m.l] \in Seq(EntryType) /\ U[m.l] \in Seq(EntryType)
      /\ CoversIn(T[m.l], U[m.l], m.l)
      /\ m.op = "DELETE" => UniqueIn(U[m.l], m.l)
  BY DEF Msg, Tables, Fits, Covers, Unique
<1>2. CoversIn(Process(T[m.l], m), Process(U[m.l], m), m.l)
  BY <1>1, ProcessCovers
<1>3. /\ Apply(T, m)[m.l] = Process(T[m.l], m) /\ Apply(U, m)[m.l] = Process(U[m.l], m)
      /\ \A l \in Layers : l # m.l => Apply(T, m)[l] = T[l] /\ Apply(U, m)[l] = U[l]
  BY <1>1 DEF Apply, Tables
<1>4. Covers(Apply(T, m), Apply(U, m))
  BY <1>2, <1>3 DEF Covers, Fits
<1> QED BY <1>4 DEF Fits
-----------------------------------------------------------------------------
(* The inductive form of Replica and NoRouteMissing.                       *)
Target(c) == IF spc = "dump" /\ newc = c THEN Dumped ELSE tbl

Chain(c) ==
  \E T \in Tables : /\ ReplaysTo(ctbl[c], chan[c], T)
                    /\ IF Unserved(c) THEN Fits(Apply(T, cur), tbl) ELSE Fits(T, Target(c))

ChainInv == Serving => \A c \in Clients : Monitored(c) => Chain(c)

(* The part of the dump that is sent is a pair of tables.                  *)
LEMMA DumpedTyped ==
  ASSUME TypeOK, spc = "dump", pos <= Len(tbl[dl])
  PROVE  Dumped \in Tables
<1>1. /\ \A l \in Layers : tbl[l] \in Seq(EntryType)
      /\ pos \in Nat /\ << >> \in Seq(EntryType)
  BY EmptySeq DEF TypeOK, Tables
<1>2. Len(tbl[dl]) \in Nat /\ \A i \in 1 .. Len(tbl[dl]) : tbl[dl][i] \in EntryType
  BY <1>1, LenProperties, ElementOfSeq DEF TypeOK
<1>3. SubSeq(tbl[dl], 1, pos) \in Seq(EntryType)
  BY <1>1, <1>2, SubSeqProperties
<1> QED BY <1>1, <1>3 DEF Dumped, Tables

(* A whole prefix is the sequence; an empty one is empty.                  *)
LEMMA PrefixEnds ==
  ASSUME NEW t \in Seq(EntryType)
  PROVE  SubSeq(t, 1, Len(t)) = t /\ SubSeq(t, 1, 0) = << >>
<1>1. Len(t) \in Nat /\ \A i \in 1 .. Len(t) : t[i] \in EntryType
  BY LenProperties, ElementOfSeq
<1>2. /\ SubSeq(t, 1, Len(t)) \in Seq(EntryType)
      /\ Len(SubSeq(t, 1, Len(t))) = Len(t)
      /\ \A i \in 1 .. Len(t) : SubSeq(t, 1, Len(t))[i] = t[i]
  BY <1>1, SubSeqProperties
<1> QED BY <1>1, <1>2, SeqEqual, SubSeqEmpty

(* Each frame of a dump extends the copy by the entry it was built from.   *)
LEMMA DumpGrows ==
  ASSUME Uniform, TypeOK, UniqueKeys, ServerInv, SDumpEntry
  PROVE  /\ Dumped \in Tables
         /\ Apply(Dumped, DumpMsg(cur, dl, tbl[dl][pos + 1])) = Dumped'
<1> DEFINE m == DumpMsg(cur, dl, tbl[dl][pos + 1])
<1>1. m \in Msg /\ m.op = "CREATE" /\ m.l = dl /\ Entry(m) = tbl[dl][pos + 1]
  BY DumpMsgFaithful
<1>2. /\ spc = "dump" /\ dl \in Layers /\ tbl[dl] \in Seq(EntryType) /\ pos \in Nat
      /\ pos < Len(tbl[dl]) /\ Len(tbl[dl]) \in Nat
      /\ tbl' = tbl /\ dl' = dl /\ pos' = pos + 1
  BY LenProperties DEF SDumpEntry, TypeOK, Tables
<1> HIDE DEF m
<1>3. Dumped \in Tables
  BY <1>2, DumpedTyped
<1>4. UniqueIn(tbl[dl], m.l)
  BY <1>1, <1>2 DEF UniqueKeys, Unique
<1>5. Process(SubSeq(tbl[dl], 1, pos), m) = SubSeq(tbl[dl], 1, pos + 1)
  BY <1>1, <1>2, <1>4, CopyNext
<1>6. Dumped' = [l \in Layers |->
             IF l = dl THEN SubSeq(tbl[l], 1, pos + 1)
             ELSE IF l = "L3" THEN tbl[l] ELSE << >>]
  BY <1>2 DEF Dumped
<1>7. Dumped[dl] = SubSeq(tbl[dl], 1, pos)
  BY <1>2 DEF Dumped
<1>8. Apply(Dumped, m) = [Dumped EXCEPT ![dl] = SubSeq(tbl[dl], 1, pos + 1)]
  BY <1>1, <1>5, <1>7 DEF Apply
<1>9. [Dumped EXCEPT ![dl] = SubSeq(tbl[dl], 1, pos + 1)] = Dumped'
  BY <1>2, <1>6 DEF Dumped
<1> QED BY <1>3, <1>8, <1>9 DEF m

SyncInv == TypeOK /\ UniqueKeys /\ SlotsInv /\ ServerInv /\ FreshInv /\ ChainInv

(* Nothing a client's chain mentions changes.                              *)
LEMMA ChainSame ==
  ASSUME NEW c \in Clients, Chain(c), UNCHANGED <<svars, ctbl[c], chan[c]>>
  PROVE  Chain(c)'
<1>1. Unserved(c)' = Unserved(c) /\ Target(c)' = Target(c) /\ cur' = cur /\ tbl' = tbl
  BY DEF svars, Unserved, Target, Dumped
<1> QED BY <1>1 DEF Chain

(* Every action keeps a client's table and what it is owed equal to tbl.   *)
LEMMA ChainStep ==
  ASSUME Uniform, SyncInv, [Next]_vars
  PROVE  ChainInv'
<1> SUFFICES ASSUME Serving', NEW c \in Clients, Monitored(c)' PROVE Chain(c)'
  BY DEF ChainInv
<1>a. /\ TypeOK /\ UniqueKeys /\ SlotsInv /\ ServerInv /\ FreshInv /\ ChainInv
      /\ ctbl[c] \in Tables /\ chan[c] \in Seq(Frames) /\ tbl \in Tables
  BY DEF SyncInv, TypeOK
<1>b. ASSUME Serving, Monitored(c) PROVE Chain(c)
  BY <1>a, <1>b DEF ChainInv
<1>c. \A s, t \in Slots : fds[s] = c /\ fds[t] = c => s = t
  BY <1>a, NoneAssumption DEF SlotsInv, SlotsDistinct
<1>1. CASE SAccept
  <2>1. /\ spc' = "dump" /\ pos' = 0 /\ tbl' = tbl /\ dl' = "L3" /\ newc' = Head(backlog)
        /\ UNCHANGED <<ctbl, chan>> /\ spc = "select" /\ backlog # << >>
    BY <1>1, <1>a DEF SAccept, AddFd, AddPid, ServerInv, cvars
  <2>2. CASE c = Head(backlog)
    <3>1. c \in ToSet(backlog)
      BY <1>a, <2>1, <2>2, HeadTailProperties, EmptySeq, LenProperties DEF TypeOK, ToSet
    <3>2. ctbl[c] = EmptyTables /\ chan[c] = << >>
      BY <1>a, <2>1, <3>1 DEF FreshInv, Serving
    <3>3. Dumped' = EmptyTables
      <4>1. tbl["L3"] \in Seq(EntryType)
        BY <1>a DEF Tables
      <4>2. SubSeq(tbl["L3"], 1, 0) = << >>
        BY <4>1, PrefixEnds
      <4> QED BY <2>1, <4>2 DEF Dumped, EmptyTables
    <3>4. EmptyTables \in Tables /\ ReplaysTo(ctbl[c], chan[c], EmptyTables)
      BY <3>2, EmptyTablesUnique, ReplaysNothing
    <3>5. ~Unserved(c)' /\ Target(c)' = EmptyTables
      BY <2>1, <2>2, <3>3 DEF Unserved, Target
    <3> QED BY <2>1, <3>4, <3>5, FitsSelf DEF Chain
  <2>3. CASE c # Head(backlog)
    <3>1. Monitored(c)
      BY <1>1, <1>a, <2>3 DEF SAccept, AddFd, AddPid, Monitored, TypeOK
    <3>2. PICK T \in Tables : ReplaysTo(ctbl[c], chan[c], T) /\ Fits(T, tbl)
      BY <1>b, <2>1, <3>1 DEF Serving, Chain, Unserved, Target
    <3>3. ~Unserved(c)' /\ Target(c)' = tbl
      BY <2>1, <2>3 DEF Unserved, Target
    <3> QED BY <2>1, <3>2, <3>3 DEF Chain
  <2> QED BY <2>2, <2>3
<1>2. CASE SDumpEntry
  <2> DEFINE m == DumpMsg(cur, dl, tbl[dl][pos + 1])
             f == Frame(m, sync, 1)
  <2>1. m \in Msg /\ m.op # "DELETE" /\ f \in Frames /\ f.msg = m
    <3>1. m \in Msg /\ m.op = "CREATE"
      BY <1>2, <1>a, DumpMsgFaithful
    <3>2. sync \in 0 .. CUT
      BY <1>a DEF TypeOK
    <3>3. f \in Frames
      BY <3>1, <3>2, FrameTyped
    <3>4. f.msg = m
      BY DEF Frame
    <3> QED BY <3>1, <3>3, <3>4
  <2>2. Dumped \in Tables /\ Apply(Dumped, m) = Dumped'
    BY <1>2, <1>a, DumpGrows
  <2>3. /\ spc = "dump" /\ spc' = "dump" /\ newc' = newc /\ tbl' = tbl /\ fds' = fds
        /\ ctbl' = ctbl /\ chan' = [chan EXCEPT ![newc] = Append(@, f)]
    BY <1>2 DEF SDumpEntry, Push
  <2> HIDE DEF m, f
  <2>4. Chain(c)
    BY <1>b, <2>3 DEF Serving, Monitored
  <2>5. CASE c = newc
    <3>1. PICK T \in Tables : ReplaysTo(ctbl[c], chan[c], T) /\ Fits(T, Dumped)
      BY <2>3, <2>4, <2>5 DEF Chain, Unserved, Target
    <3>2. ReplaysTo(ctbl[c], Append(chan[c], f), Apply(T, m)) /\ Apply(T, m) \in Tables
      BY <1>a, <2>1, <3>1, ReplaysAppend, ApplyType
    <3>5. Fits(Apply(T, m), Dumped')
      BY <2>1, <2>2, <3>1, FitsApply
    <3>3. ctbl'[c] = ctbl[c] /\ chan'[c] = Append(chan[c], f)
      BY <1>a, <2>3, <2>5 DEF TypeOK
    <3>4. ~Unserved(c)' /\ Target(c)' = Dumped'
      BY <2>3, <2>5 DEF Unserved, Target
    <3> QED BY <3>2, <3>3, <3>4, <3>5 DEF Chain
  <2>6. CASE c # newc
    <3>1. PICK T \in Tables : ReplaysTo(ctbl[c], chan[c], T) /\ Fits(T, tbl)
      BY <2>3, <2>4, <2>6 DEF Chain, Unserved, Target
    <3>2. ctbl'[c] = ctbl[c] /\ chan'[c] = chan[c]
      BY <1>a, <2>3, <2>6 DEF TypeOK
    <3>3. ~Unserved(c)' /\ Target(c)' = tbl
      BY <2>3, <2>6 DEF Unserved, Target
    <3> QED BY <3>1, <3>2, <3>3 DEF Chain
  <2> QED BY <2>5, <2>6
<1>3. CASE SDumpNotice
  <2> DEFINE m == [cur EXCEPT !.op = "NONE"]
             f == Frame(m, Notice(dl), 1)
  <2>1. m \in Msg /\ m.op = "NONE" /\ f \in Frames /\ f.msg = m
    <3>1. cur \in Msg
      BY <1>a DEF TypeOK
    <3>2. m \in Msg /\ m.op = "NONE"
      BY <3>1 DEF Msg, OpCodes
    <3>3. Notice(dl) \in 0 .. CUT
      BY DEF Notice
    <3>4. f \in Frames
      BY <3>2, <3>3, FrameTyped
    <3>5. f.msg = m
      BY DEF Frame
    <3> QED BY <3>2, <3>4, <3>5
  <2>2. /\ spc = "dump" /\ pos = Len(tbl[dl]) /\ tbl' = tbl /\ fds' = fds /\ dl \in Layers
        /\ ctbl' = ctbl /\ chan' = [chan EXCEPT ![newc] = Append(@, f)]
    BY <1>3, <1>a DEF SDumpNotice, Push, TypeOK
  <2>3. \/ dl = "L3" /\ dl' = "L2" /\ pos' = 0 /\ spc' = "dump" /\ newc' = newc
        \/ dl = "L2" /\ spc' = "select"
    BY <1>3, <2>2 DEF SDumpNotice, NextIteration
  <2> HIDE DEF m, f
  <2>4. Chain(c)
    BY <1>b, <2>2 DEF Serving, Monitored
  <2>5. CASE c = newc
    <3>1. PICK T \in Tables : ReplaysTo(ctbl[c], chan[c], T) /\ Fits(T, Dumped)
      BY <2>2, <2>4, <2>5 DEF Chain, Unserved, Target
    <3>2. Apply(T, m) = T
      BY <2>1, ApplyNone
    <3>4. ReplaysTo(ctbl[c], Append(chan[c], f), T)
      BY <1>a, <2>1, <3>1, <3>2, ReplaysAppend
    <3>5. ctbl'[c] = ctbl[c] /\ chan'[c] = Append(chan[c], f)
      BY <1>a, <2>2, <2>5 DEF TypeOK
    <3>6. tbl["L3"] \in Seq(EntryType) /\ tbl["L2"] \in Seq(EntryType) /\ tbl \in [Layers -> Seq(EntryType)]
      BY <1>a DEF Tables
    <3>7. CASE dl = "L3"
      <4>1. Dumped = [l \in Layers |-> IF l = "L3" THEN tbl["L3"] ELSE << >>]
        BY <2>2, <3>6, <3>7, PrefixEnds DEF Dumped
      <4>2. Dumped' = [l \in Layers |-> IF l = "L3" THEN tbl["L3"] ELSE << >>]
        BY <2>2, <2>3, <3>6, <3>7, PrefixEnds DEF Dumped
      <4>3. ~Unserved(c)' /\ Target(c)' = Dumped'
        BY <2>3, <2>5, <3>7 DEF Unserved, Target
      <4> QED BY <3>1, <3>4, <3>5, <4>1, <4>2, <4>3 DEF Chain
    <3>8. CASE dl = "L2"
      <4>1. Dumped = tbl
        BY <2>2, <3>6, <3>8, PrefixEnds DEF Dumped
      <4>2. ~Unserved(c)' /\ Target(c)' = tbl
        BY <2>2, <2>3, <3>8 DEF Unserved, Target
      <4> QED BY <3>1, <3>4, <3>5, <4>1, <4>2 DEF Chain
    <3> QED BY <2>3, <3>7, <3>8
  <2>6. CASE c # newc
    <3>1. PICK T \in Tables : ReplaysTo(ctbl[c], chan[c], T) /\ Fits(T, tbl)
      BY <2>2, <2>4, <2>6 DEF Chain, Unserved, Target
    <3>2. ctbl'[c] = ctbl[c] /\ chan'[c] = chan[c]
      BY <1>a, <2>2, <2>6 DEF TypeOK
    <3>3. ~Unserved(c)' /\ Target(c)' = tbl
      BY <2>2, <2>3, <2>6 DEF Unserved, Target
    <3> QED BY <3>1, <3>2, <3>3 DEF Chain
  <2> QED BY <2>5, <2>6
<1>4. ASSUME NEW m \in Commands, SCommand(m) PROVE Chain(c)'
  <2>1. /\ spc = "select" /\ spc' = "bcast" /\ pos' = 2 /\ fds' = fds /\ cur' = m
        /\ tbl' = Apply(tbl, m) /\ UNCHANGED <<ctbl, chan>>
    BY <1>4 DEF SCommand, cvars
  <2>2. PICK T \in Tables : ReplaysTo(ctbl[c], chan[c], T) /\ Fits(T, tbl)
    BY <1>b, <2>1 DEF Serving, Monitored, Chain, Unserved, Target
  <2>3. Unserved(c)'
    BY <2>1, MaxClientsAssumption DEF Unserved, Monitored, Slots
  <2>4. Fits(Apply(T, m), Apply(tbl, m))
    BY <1>a, <2>2, MessagesTyped, FitsApply DEF UniqueKeys
  <2> QED BY <2>1, <2>2, <2>3, <2>4 DEF Chain
<1>5. CASE SBcast
  <2> DEFINE f == Frame(cur, sync, 1)
  <2>1. /\ spc = "bcast" /\ spc' = "bcast" /\ pos' = pos + 1 /\ pos \in Slots /\ pos \in Nat
        /\ UNCHANGED <<fds, tbl, cur, ctbl>>
    BY <1>5, <1>a, MaxClientsAssumption DEF SBcast, TypeOK, Slots
  <2>2. chan'[c] = IF fds[pos] = c THEN Append(chan[c], f) ELSE chan[c]
    BY <1>5, <1>a, <2>1, NoneAssumption DEF SBcast, Push, TypeOK
  <2>3. f \in Frames /\ f.msg = cur
    <3>1. cur \in Msg /\ sync \in 0 .. CUT
      BY <1>a DEF TypeOK
    <3>2. f \in Frames
      BY <3>1, FrameTyped
    <3>3. f.msg = cur
      BY DEF Frame
    <3> QED BY <3>2, <3>3
  <2> HIDE DEF f
  <2>4. Chain(c)
    BY <1>b, <2>1 DEF Serving, Monitored
  <2>5. CASE fds[pos] = c
    <3>1. Unserved(c)
      BY <2>1, <2>5 DEF Unserved
    <3>2. PICK T \in Tables : ReplaysTo(ctbl[c], chan[c], T) /\ Fits(Apply(T, cur), tbl)
      BY <2>4, <3>1 DEF Chain
    <3>3. ReplaysTo(ctbl[c], Append(chan[c], f), Apply(T, cur)) /\ Apply(T, cur) \in Tables
      <4>1. cur \in Msg
        BY <1>a DEF TypeOK
      <4> QED BY <1>a, <2>3, <3>2, <4>1, ReplaysAppend, ApplyType
    <3>4. ~Unserved(c)'
      <4>1. \A s \in Slots : s >= pos + 1 => fds[s] # c
        BY <1>c, <2>1, <2>5
      <4> QED BY <2>1, <4>1 DEF Unserved
    <3>5. Target(c)' = tbl
      BY <2>1 DEF Target
    <3> QED BY <2>1, <2>2, <2>5, <3>2, <3>3, <3>4, <3>5 DEF Chain
  <2>6. CASE fds[pos] # c
    <3>1. Unserved(c)' <=> Unserved(c)
      <4>1. \A s \in Slots : s \in Nat
        BY MaxClientsAssumption DEF Slots
      <4> QED BY <2>1, <2>6, <4>1 DEF Unserved
    <3>2. Target(c)' = tbl /\ Target(c) = tbl
      BY <2>1 DEF Target
    <3> QED BY <2>1, <2>2, <2>4, <2>6, <3>1, <3>2 DEF Chain
  <2> QED BY <2>5, <2>6
<1>6. CASE SBcastDone
  <2>1. /\ spc = "bcast" /\ pos = MaxClients /\ spc' = "select" /\ UNCHANGED <<tbl, fds, ctbl, chan>>
    BY <1>6 DEF SBcastDone, NextIteration, cvars
  <2>2. ~Unserved(c)
    BY <2>1, MaxClientsAssumption DEF Unserved, Slots
  <2>3. PICK T \in Tables : ReplaysTo(ctbl[c], chan[c], T) /\ Fits(T, tbl)
    BY <1>b, <2>1, <2>2 DEF Serving, Monitored, Chain, Target
  <2>4. ~Unserved(c)' /\ Target(c)' = tbl
    BY <2>1 DEF Unserved, Target
  <2> QED BY <2>1, <2>3, <2>4 DEF Chain
<1>7. CASE SSelectClients \/ SStatus \/ SStatusDone
  <2>1. /\ spc \in {"select", "status"} /\ spc' \in {"select", "status", "killed"}
        /\ UNCHANGED <<tbl, ctbl, chan>> /\ \A s \in Slots : fds'[s] \in {fds[s], None}
    BY <1>7, <1>a DEF SSelectClients, SStatus, SStatusDone, NextIteration, cvars, TypeOK
  <2>2. Monitored(c)
    BY <2>1, NoneAssumption DEF Monitored
  <2>3. PICK T \in Tables : ReplaysTo(ctbl[c], chan[c], T) /\ Fits(T, tbl)
    BY <1>b, <2>1, <2>2 DEF Serving, Chain, Unserved, Target
  <2>4. ~Unserved(c)' /\ Target(c)' = tbl
    BY <2>1 DEF Unserved, Target
  <2> QED BY <2>1, <2>3, <2>4 DEF Chain
<1>13. CASE SFlush
  <2>1. /\ Flush /\ spc' = "bcast" /\ pos' = 2 /\ fds' = fds /\ cur' = NoneMsg /\ tbl' = EmptyTables
    BY <1>13 DEF SFlush, FlushServer
  <2>2. ctbl'[c] \in Tables /\ chan'[c] \in Seq(Frames)
    BY <1>a, TypeStep DEF TypeOK
  <2>3. PICK T \in Tables : ReplaysTo(ctbl'[c], chan'[c], T)
    BY <2>2, ReplaysExist
  <2>4. Unserved(c)'
    BY <2>1, MaxClientsAssumption DEF Unserved, Monitored, Slots
  <2>5. Apply(T, NoneMsg) = T
    BY MessagesTyped, ApplyNone DEF NoneMsg, ZeroMsg
  <2>6. Fits(T, EmptyTables)
    <3>1. DOMAIN << >> = {}
      OBVIOUS
    <3> QED BY <2>1, <3>1 DEF Fits, Covers, CoversIn, EmptyTables
  <2> QED BY <2>1, <2>3, <2>4, <2>5, <2>6 DEF Chain
<1>8. ~(SSigpipe \/ SSigint \/ SGoodbye \/ SExit \/ SBadMask \/ SCrash)
  BY DEF SSigpipe, SSigint, SGoodbye, SExit, SBadMask, SCrash, Serving
<1>9. ASSUME NEW d \in Clients, CConnect(d) PROVE Chain(c)'
  <2>1. UNCHANGED <<tbl, spc, cur, pos, dl, newc, fds, ctbl, chan>>
    BY <1>9 DEF CConnect
  <2>2. Chain(c)
    BY <1>b, <2>1 DEF Serving, Monitored
  <2>3. Unserved(c)' = Unserved(c) /\ Target(c)' = Target(c)
    BY <2>1 DEF Unserved, Target, Dumped
  <2> QED BY <2>1, <2>2, <2>3 DEF Chain
<1>10. ASSUME NEW d \in Clients, CRecv(d) PROVE Chain(c)'
  <2>1. UNCHANGED svars
    BY <1>10 DEF CRecv
  <2>2. Chain(c) /\ Serving
    BY <1>b, <2>1 DEF Serving, Monitored, svars
  <2>3. CASE c # d
    BY <1>10, <1>a, <2>1, <2>2, <2>3, ChainSame DEF CRecv, TypeOK
  <2>4. CASE c = d
    <3>1. /\ ctbl'[c] = Apply(ctbl[c], Head(chan[c]).msg) /\ chan'[c] = Tail(chan[c])
          /\ chan[c] # << >>
      BY <1>10, <1>a, <2>4 DEF CRecv, TypeOK
    <3>2. ASSUME NEW T \in Tables, ReplaysTo(ctbl[c], chan[c], T)
          PROVE  ReplaysTo(ctbl'[c], chan'[c], T)
      BY <1>a, <3>1, <3>2, ReplaysTail
    <3>3. Unserved(c)' = Unserved(c) /\ Target(c)' = Target(c) /\ cur' = cur /\ tbl' = tbl
      BY <2>1 DEF svars, Unserved, Target, Dumped
    <3> QED BY <2>2, <3>2, <3>3 DEF Chain
  <2> QED BY <2>3, <2>4
<1>11. ASSUME NEW d \in Clients,
              CSendPid(d) \/ CRegister(d) \/ CAnswer(d) \/ CQuit(d) \/ CKill(d) \/ CEof(d) \/ CCutOff(d)
       PROVE  Chain(c)'
  <2>1. UNCHANGED svars
    BY <1>11 DEF CSendPid, CRegister, CAnswer, CQuit, CKill, CEof, CCutOff
  <2>2. Serving /\ Monitored(c)
    BY <2>1 DEF Serving, Monitored, svars
  <2>3. UNCHANGED <<ctbl, chan>>
    BY <1>11, <2>2 DEF CSendPid, CRegister, CAnswer, CQuit, CKill, CEof, CCutOff, Gone, Serving
  <2> QED BY <1>b, <2>1, <2>2, <2>3, ChainSame
<1>12. CASE UNCHANGED vars
  <2>1. UNCHANGED svars /\ UNCHANGED <<ctbl, chan>>
    BY <1>12 DEF vars, cvars
  <2>2. Serving /\ Monitored(c)
    BY <2>1 DEF Serving, Monitored, svars
  <2> QED BY <1>b, <2>1, <2>2, ChainSame
<1> QED
  BY <1>1, <1>2, <1>3, <1>4, <1>5, <1>6, <1>7, <1>8, <1>9, <1>10, <1>11, <1>12, <1>13
     DEF Next, SNext, SRun, CNext, CRun

(* No client is monitored at first.                                        *)
LEMMA SyncInit == Init => SyncInv
<1> SUFFICES ASSUME Init PROVE SyncInv
  OBVIOUS
<1>1. UniqueKeys
  BY EmptyTablesUnique DEF Init, UniqueKeys
<1>2. ServerInv
  <2>1. DOMAIN << >> = 1 .. 0
    BY EmptySeq, LenProperties
  <2> QED BY <2>1 DEF Init, ServerInv, Genuine, EmptyTables
<1>3. FreshInv /\ ChainInv
  BY NoneAssumption DEF Init, FreshInv, ChainInv, Monitored
<1> QED BY <1>1, <1>2, <1>3, TypeInit, SlotsInit DEF SyncInv

(* With strings of one length per field, every state has a chain of tables *)
(* for every monitored client.                                             *)
LEMMA SyncHolds == ASSUME Uniform PROVE Spec => []SyncInv
<1>1. SyncInv /\ [Next]_vars => SyncInv'
  BY TypeStep, UniqueStep, SlotsStep, ServerStep, FreshStep, ChainStep DEF SyncInv
<1> QED BY <1>1, SyncInit, PTL DEF Spec

(* What a chain says of a client that has read everything.                 *)
LEMMA ReadToTheEnd ==
  ASSUME SyncInv, NEW c \in Clients, spc = "select", Monitored(c), chan[c] = << >>
  PROVE  Fits(ctbl[c], tbl)
<1>1. PICK T \in Tables : ReplaysTo(ctbl[c], << >>, T) /\ Fits(T, tbl)
  BY DEF SyncInv, ChainInv, Serving, Chain, Unserved, Target
<1>2. ctbl[c] \in Tables
  BY DEF SyncInv, TypeOK
<1> QED BY <1>1, <1>2, ReplaysNothing

(* Without FLUSH, and with strings of one length per field, a monitored    *)
(* client that has read everything holds exactly the server's tables       *)
(* whenever the server waits for its next input.                           *)
THEOREM ReplicasInSync ==
  ASSUME Uniform, Flush = FALSE
  PROVE  Spec => []InSync
<1>1. SyncInv => InSync
  BY ReadToTheEnd DEF InSync, Fits
<1> QED BY <1>1, SyncHolds, PTL

(* With FLUSH too, whatever its signal handlers overtake or drop, such a   *)
(* client has an entry for every key of the server's tables.               *)
THEOREM NoRouteIsMissing ==
  ASSUME Uniform
  PROVE  Spec => []NoRouteMissing
<1>1. SyncInv => NoRouteMissing
  <2> SUFFICES ASSUME SyncInv, NEW c \in Clients,
                      spc = "select", Monitored(c), chan[c] = << >>, NEW l \in Layers
               PROVE  CoversIn(ctbl[c][l], tbl[l], l)
    BY DEF NoRouteMissing, CoversIn
  <2>1. Fits(ctbl[c], tbl)
    BY ReadToTheEnd
  <2> QED BY <2>1 DEF Fits, Covers
<1> QED BY <1>1, SyncHolds, PTL

(* Without FLUSH and with strings of one length per field, a monitored     *)
(* client is always owed exactly what separates its tables from the        *)
(* server's, whatever has been written, read, dumped and broadcast so far. *)
THEOREM ReplicasComplete ==
  ASSUME Uniform, Flush = FALSE
  PROVE  Spec => []Replica
<1>1. SyncInv => Replica
  <2> SUFFICES ASSUME SyncInv, NEW c \in Clients, Serving, Monitored(c)
               PROVE  IF Unserved(c) THEN Apply(Replay(c), cur) = tbl
                      ELSE IF spc = "dump" /\ newc = c THEN Replay(c) = Dumped
                      ELSE Replay(c) = tbl
    BY DEF Replica
  <2>1. TypeOK /\ Chain(c)
    BY DEF SyncInv, ChainInv
  <2>2. CASE Unserved(c)
    <3>1. PICK T \in Tables : ReplaysTo(ctbl[c], chan[c], T) /\ Apply(T, cur) = tbl
      BY <2>1, <2>2 DEF Chain, Fits
    <3> QED BY <2>1, <2>2, <3>1, ReplayIs
  <2>3. CASE ~Unserved(c)
    <3>1. ReplaysTo(ctbl[c], chan[c], Target(c))
      BY <2>1, <2>3 DEF Chain, Fits
    <3>2. Replay(c) = Target(c)
      BY <2>1, <3>1, ReplayIs
    <3> QED BY <2>3, <3>2 DEF Target
  <2> QED BY <2>2, <2>3
<1> QED BY <1>1, SyncHolds, PTL
-----------------------------------------------------------------------------
(***************************************************************************)
(* The refinement of TableReplication, under the same two hypotheses: what *)
(* a client reads of a frame, the abstract steps, and each step of server  *)
(* and clients as one of them or a stutter.                                *)
(***************************************************************************)

(* The abstract specification's own copies of the table operators.         *)
LEMMA SameOperators ==
  /\ \A t, m : Replication!Apply(t, m) = Apply(t, m)
  /\ \A m : Replication!Plain(m) = Plain(m)
  /\ \A t, l, i : Replication!Copy(t, l, i) = Copy(t, l, i)
  /\ Replication!EmptyTables = EmptyTables
<1>1. \A t, m : Replication!Apply(t, m) = Apply(t, m)
  BY DEF Replication!Apply, Apply, Replication!Process, Process, Replication!Create, Create,
         Replication!Update, Update, Replication!Delete, Delete, Replication!Hits, Hits,
         Replication!SameKey, SameKey, Replication!Find, Find, Replication!Entry, Entry,
         Replication!RemoveAt, RemoveAt
<1>2. \A m : Replication!Plain(m) = Plain(m)
  BY DEF Replication!Plain, Plain, Replication!UpToDate, UpToDate, Replication!Item, Item,
         Replication!Entry, Entry
<1>3. \A t, l, i : Replication!Copy(t, l, i) = Copy(t, l, i)
  BY DEF Replication!Copy, Copy, Replication!UpToDate, UpToDate, Replication!Item, Item
<1>4. Replication!EmptyTables = EmptyTables
  BY DEF Replication!EmptyTables, EmptyTables, Replication!Layers, Layers
<1> QED BY <1>1, <1>2, <1>3, <1>4

(* What a receiver reads is a message again.                               *)
LEMMA PlainTyped ==
  /\ \A l \in Layers : UpToDate(l) \in Msg
  /\ \A l \in Layers : \A e \in EntryType : Item("CREATE", l, e) \in Msg
  /\ \A m \in Msg : Plain(m) \in Msg
<1>1. \A l \in Layers : UpToDate(l) \in Msg
  <2>1. << >> \in Str
    BY EmptySeq DEF Str
  <2> QED BY <2>1 DEF UpToDate, Msg, OpCodes
<1>2. \A o \in OpCodes : \A l \in Layers : \A e \in EntryType : Item(o, l, e) \in Msg
  BY DEF Item, Msg, EntryType
<1>3. ASSUME NEW m \in Msg PROVE Plain(m) \in Msg
  <2>1. m.op \in OpCodes /\ m.l \in Layers
    BY DEF Msg
  <2>2. Entry(m) \in EntryType
    BY EntryTyped
  <2> QED BY <1>1, <1>2, <2>1, <2>2 DEF Plain
<1> QED BY <1>1, <1>2, <1>3 DEF OpCodes

(* It does to the tables what the message does.                            *)
LEMMA PlainApplies ==
  ASSUME NEW t \in Tables, NEW m \in Msg
  PROVE  Apply(t, Plain(m)) = Apply(t, m)
<1>1. m.op \in OpCodes /\ m.l \in Layers /\ t[m.l] \in Seq(EntryType)
  BY DEF Msg, Tables
<1>2. CASE m.op = "NONE"
  <2>1. Plain(m) \in Msg /\ Plain(m).op = "NONE"
    BY <1>2, PlainTyped DEF Plain, UpToDate
  <2> QED BY <1>2, <2>1, ApplyNone
<1>3. CASE m.op # "NONE"
  <2> DEFINE p == Plain(m)
             u == t[m.l]
  <2>1. /\ p.op = m.op /\ p.l = m.l /\ p.dest = m.dest
        /\ m.l = "L3" => p.mask = m.mask /\ p.via = m.via
    BY <1>3 DEF Plain, Item, Entry
  <2> HIDE DEF p, u
  <2>2. Hits(u, p) = Hits(u, m)
    BY <2>1 DEF Hits, SameKey
  <2>3. Find(u, p) = Find(u, m)
    BY <2>2 DEF Find
  <2>4. Entry(p) = Entry(m)
    BY <2>1 DEF Entry
  <2>5. Create(u, p) = Create(u, m)
    BY <2>2, <2>4 DEF Create
  <2>6. Update(u, p) = Update(u, m)
    <3>1. m.l = "L2" \/ m.l = "L3"
      BY <1>1 DEF Layers
    <3> QED BY <2>1, <2>2, <2>3, <3>1 DEF Update
  <2>7. Delete(u, p) = Delete(u, m)
    BY <2>2, <2>3 DEF Delete
  <2>8. Process(u, p) = Process(u, m)
    BY <2>1, <2>5, <2>6, <2>7 DEF Process
  <2>9. Process(t[m.l], p) = Process(t[m.l], m)
    BY <2>8 DEF u
  <2> QED BY <2>1, <2>9 DEF Apply, p
<1> QED BY <1>2, <1>3

(* So does what a client makes of a frame.                                 *)
LEMMA SeenApplies ==
  ASSUME NEW f \in Frames
  PROVE  /\ Seen(f) \in Msg
         /\ \A t \in Tables : Apply(t, Seen(f)) = Apply(t, f.msg)
<1>1. f.msg \in Msg
  BY DEF Frames
<1>2. CASE f.msg.op = "NONE"
  <2>1. PICK l \in Layers : Seen(f) = UpToDate(l)
    BY <1>2 DEF Seen, Layers
  <2>2. Seen(f) \in Msg /\ Seen(f).op = "NONE"
    BY <2>1, PlainTyped DEF UpToDate
  <2> QED BY <1>1, <1>2, <2>2, ApplyNone
<1>3. CASE f.msg.op # "NONE"
  BY <1>1, <1>3, PlainTyped, PlainApplies DEF Seen
<1> QED BY <1>2, <1>3

(* A copy begins with the entry at i + 1; at the end only the notice is    *)
(* left.                                                                   *)
LEMMA CopyUnfolds ==
  ASSUME NEW t \in Tables, NEW l \in Layers, NEW i \in 0 .. Len(t[l])
  PROVE  /\ Copy(t, l, i) \in Seq(Msg)
         /\ i = Len(t[l]) => Copy(t, l, i) = <<UpToDate(l)>>
         /\ i < Len(t[l]) =>
              Copy(t, l, i) = <<Item("CREATE", l, t[l][i + 1])>> \o Copy(t, l, i + 1)
<1> DEFINE n == Len(t[l])
           u == <<UpToDate(l)>>
           part(k) == [j \in 1 .. n - k |-> Item("CREATE", l, t[l][k + j])]
<1>1. t[l] \in Seq(EntryType) /\ n \in Nat /\ \A j \in 1 .. n : t[l][j] \in EntryType
  BY LenProperties, ElementOfSeq DEF Tables
<1>2. UpToDate(l) \in Msg /\ \A j \in 1 .. n : Item("CREATE", l, t[l][j]) \in Msg
  BY <1>1, PlainTyped
<1>3. u \in Seq(Msg)
  BY <1>2
<1>4. \A k : Copy(t, l, k) = part(k) \o u
  BY DEF Copy
<1> HIDE DEF n, u
<1>5. ASSUME NEW k \in 0 .. n
      PROVE  part(k) \in Seq(Msg) /\ Len(part(k)) = n - k
             /\ \A j \in 1 .. n - k : part(k)[j] = Item("CREATE", l, t[l][k + j])
  <2>1. n - k \in Nat /\ \A j \in 1 .. n - k : k + j \in 1 .. n
    BY <1>1
  <2>2. part(k) \in [1 .. n - k -> Msg]
    BY <1>2, <2>1
  <2> HIDE DEF part
  <2>3. part(k) \in Seq(Msg) /\ DOMAIN part(k) = 1 .. n - k
    BY <2>1, <2>2, SeqDef
  <2>4. Len(part(k)) = n - k
    BY <2>1, <2>3, LenProperties
  <2>5. \A j \in 1 .. n - k : part(k)[j] = Item("CREATE", l, t[l][k + j])
    BY DEF part
  <2> QED BY <2>3, <2>4, <2>5
<1> HIDE DEF part
<1>6. Copy(t, l, i) \in Seq(Msg)
  BY <1>3, <1>4, <1>5, ConcatProperties DEF n
<1>7. ASSUME i = n PROVE Copy(t, l, i) = u
  <2>1. part(i) \in Seq(Msg) /\ Len(part(i)) = 0
    BY <1>1, <1>5, <1>7
  <2>2. part(i) = << >>
    BY <2>1, EmptySeq
  <2> QED BY <1>3, <1>4, <2>2, ConcatEmptySeq
<1>8. ASSUME i < n PROVE Copy(t, l, i) = <<Item("CREATE", l, t[l][i + 1])>> \o Copy(t, l, i + 1)
  <2> DEFINE x == Item("CREATE", l, t[l][i + 1])
  <2>1. i \in 0 .. n /\ i + 1 \in 0 .. n /\ i + 1 \in 1 .. n /\ i \in Nat
    BY <1>1, <1>8 DEF n
  <2>2. x \in Msg
    BY <1>2, <2>1
  <2>3. /\ part(i) \in Seq(Msg) /\ Len(part(i)) = n - i
        /\ part(i + 1) \in Seq(Msg) /\ Len(part(i + 1)) = n - (i + 1)
    BY <1>5, <2>1
  <2>4. /\ \A j \in 1 .. n - i : part(i)[j] = Item("CREATE", l, t[l][i + j])
        /\ \A j \in 1 .. n - (i + 1) : part(i + 1)[j] = Item("CREATE", l, t[l][(i + 1) + j])
    BY <1>5, <2>1
  <2> DEFINE q == <<x>> \o part(i + 1)
  <2>5. <<x>> \in Seq(Msg) /\ Len(<<x>>) = 1 /\ <<x>>[1] = x
    BY <2>2
  <2> HIDE DEF x
  <2>6. /\ q \in Seq(Msg) /\ Len(q) = n - i
        /\ \A j \in 1 .. n - i : q[j] = IF j <= 1 THEN x ELSE part(i + 1)[j - 1]
    <3>1. /\ q \in Seq(Msg) /\ Len(q) = Len(<<x>>) + Len(part(i + 1))
          /\ \A j \in 1 .. Len(<<x>>) + Len(part(i + 1)) :
               q[j] = IF j <= Len(<<x>>) THEN <<x>>[j] ELSE part(i + 1)[j - Len(<<x>>)]
      BY <2>3, <2>5, ConcatProperties
    <3>2. Len(<<x>>) + Len(part(i + 1)) = n - i
      BY <1>1, <2>1, <2>3, <2>5
    <3>3. \A j \in 1 .. n - i : j <= 1 => j = 1
      BY <1>1, <2>1
    <3> HIDE DEF q
    <3> QED BY <2>5, <3>1, <3>2, <3>3
  <2> HIDE DEF q
  <2>7. ASSUME NEW j \in 1 .. n - i PROVE part(i)[j] = q[j]
    <3>1. CASE j = 1
      BY <2>4, <2>6, <3>1, <1>1, <2>1 DEF x
    <3>2. CASE j # 1
      <4>1. j - 1 \in 1 .. n - (i + 1) /\ (i + 1) + (j - 1) = i + j /\ ~(j <= 1)
        BY <1>1, <2>1, <3>2
      <4>2. part(i + 1)[j - 1] = Item("CREATE", l, t[l][i + j])
        BY <2>4, <4>1
      <4> QED BY <2>4, <2>6, <4>1, <4>2
    <3> QED BY <3>1, <3>2
  <2>8. part(i) = q
    BY <2>3, <2>6, <2>7, SeqEqual
  <2>9. (<<x>> \o part(i + 1)) \o u = <<x>> \o (part(i + 1) \o u)
    <3>1. <<x>> \in Seq(Msg) /\ part(i + 1) \in Seq(Msg) /\ u \in Seq(Msg)
      BY <1>3, <2>3, <2>5
    <3> HIDE DEF part
    <3> QED BY <3>1, ConcatAssociative
  <2> QED BY <1>4, <2>8, <2>9 DEF q, x
<1> QED BY <1>1, <1>6, <1>7, <1>8 DEF n, u

(* Reading is done frame by frame, in order.                               *)
LEMMA ReadAllProperties ==
  ASSUME NEW q \in Seq(Frames)
  PROVE  /\ ReadAll(q) \in Seq(Msg) /\ Len(ReadAll(q)) = Len(q)
         /\ \A i \in 1 .. Len(q) : ReadAll(q)[i] = Seen(q[i])
<1>1. DOMAIN q = 1 .. Len(q) /\ Len(q) \in Nat /\ \A i \in 1 .. Len(q) : q[i] \in Frames
  BY LenProperties, ElementOfSeq
<1>2. ReadAll(q) \in [1 .. Len(q) -> Msg]
  BY <1>1, SeenApplies DEF ReadAll
<1>3. \A i \in 1 .. Len(q) : ReadAll(q)[i] = Seen(q[i])
  BY <1>1 DEF ReadAll
<1> HIDE DEF ReadAll
<1>4. ReadAll(q) \in Seq(Msg) /\ DOMAIN ReadAll(q) = 1 .. Len(q)
  BY <1>1, <1>2, SeqDef
<1>5. Len(ReadAll(q)) = Len(q)
  BY <1>1, <1>4, LenProperties
<1> QED BY <1>3, <1>4, <1>5

(* A write moves the first message that is owed into the socket.           *)
LEMMA WriteMoves ==
  ASSUME NEW q \in Seq(Frames), NEW f \in Frames, NEW o \in Seq(Msg)
  PROVE  ReadAll(Append(q, f)) \o o = ReadAll(q) \o (<<Seen(f)>> \o o)
<1> DEFINE r == Append(q, f)
<1>1. /\ r \in Seq(Frames) /\ Len(r) = Len(q) + 1 /\ r[Len(q) + 1] = f
      /\ \A i \in 1 .. Len(q) : r[i] = q[i]
  BY AppendProperties
<1>2. Len(q) \in Nat /\ Seen(f) \in Msg
  BY LenProperties, SeenApplies
<1>3. ReadAll(q) \in Seq(Msg) /\ Len(ReadAll(q)) = Len(q)
      /\ \A i \in 1 .. Len(q) : ReadAll(q)[i] = Seen(q[i])
  BY ReadAllProperties
<1> HIDE DEF r
<1>4. ReadAll(r) \in Seq(Msg) /\ Len(ReadAll(r)) = Len(r)
      /\ \A i \in 1 .. Len(r) : ReadAll(r)[i] = Seen(r[i])
  BY <1>1, ReadAllProperties
<1> DEFINE a == Append(ReadAll(q), Seen(f))
<1>5. /\ a \in Seq(Msg) /\ Len(a) = Len(q) + 1 /\ a[Len(q) + 1] = Seen(f)
      /\ \A i \in 1 .. Len(q) : a[i] = ReadAll(q)[i]
      /\ a = ReadAll(q) \o <<Seen(f)>>
  BY <1>2, <1>3, AppendProperties, AppendIsConcat
<1> HIDE DEF a
<1>6. ASSUME NEW i \in 1 .. Len(r) PROVE ReadAll(r)[i] = a[i]
  <2>1. i \in 1 .. Len(q) \/ i = Len(q) + 1
    BY <1>1, <1>2
  <2> QED BY <1>1, <1>3, <1>4, <1>5, <2>1
<1>7. ReadAll(r) = a
  BY <1>1, <1>4, <1>5, <1>6, SeqEqual
<1>8. <<Seen(f)>> \in Seq(Msg)
  BY <1>2
<1>9. (ReadAll(q) \o <<Seen(f)>>) \o o = ReadAll(q) \o (<<Seen(f)>> \o o)
  BY <1>3, <1>8, ConcatAssociative
<1> QED BY <1>5, <1>7, <1>9 DEF r

(* An empty socket holds no message.                                       *)
LEMMA ReadNothing == ReadAll(<< >>) = << >>
<1>1. << >> \in Seq(Frames) /\ Len(<< >>) = 0
  BY EmptySeq
<1>2. ReadAll(<< >>) \in Seq(Msg) /\ Len(ReadAll(<< >>)) = 0
  BY <1>1, ReadAllProperties
<1> QED BY <1>2, EmptySeq

(* Reading a frame takes the first message.                                *)
LEMMA ReadTakes ==
  ASSUME NEW q \in Seq(Frames), q # << >>, NEW o \in Seq(Msg)
  PROVE  /\ ReadAll(q) \o o # << >>
         /\ Head(ReadAll(q) \o o) = Seen(Head(q))
         /\ Tail(ReadAll(q) \o o) = ReadAll(Tail(q)) \o o
<1> DEFINE a == ReadAll(q) \o o
           b == ReadAll(Tail(q)) \o o
<1>1. /\ Len(q) \in Nat /\ Len(q) >= 1 /\ Len(o) \in Nat
      /\ Tail(q) \in Seq(Frames) /\ Len(Tail(q)) = Len(q) - 1
      /\ \A i \in 1 .. Len(q) - 1 : Tail(q)[i] = q[i + 1]
      /\ Head(q) = q[1]
  BY HeadTailProperties, LenProperties, EmptySeq
<1>2. /\ ReadAll(q) \in Seq(Msg) /\ Len(ReadAll(q)) = Len(q)
      /\ \A i \in 1 .. Len(q) : ReadAll(q)[i] = Seen(q[i])
  BY ReadAllProperties
<1>3. /\ ReadAll(Tail(q)) \in Seq(Msg) /\ Len(ReadAll(Tail(q))) = Len(q) - 1
      /\ \A i \in 1 .. Len(q) - 1 : ReadAll(Tail(q))[i] = Seen(Tail(q)[i])
  BY <1>1, ReadAllProperties
<1>4. /\ a \in Seq(Msg) /\ Len(a) = Len(q) + Len(o)
      /\ \A i \in 1 .. Len(q) + Len(o) : a[i] = IF i <= Len(q) THEN ReadAll(q)[i] ELSE o[i - Len(q)]
  <2>1. /\ a \in Seq(Msg) /\ Len(a) = Len(ReadAll(q)) + Len(o)
        /\ \A i \in 1 .. Len(ReadAll(q)) + Len(o) :
             a[i] = IF i <= Len(ReadAll(q)) THEN ReadAll(q)[i] ELSE o[i - Len(ReadAll(q))]
    BY <1>2, ConcatProperties
  <2> HIDE DEF a
  <2> QED BY <1>2, <2>1
<1>5. /\ b \in Seq(Msg) /\ Len(b) = (Len(q) - 1) + Len(o)
      /\ \A i \in 1 .. (Len(q) - 1) + Len(o) :
           b[i] = IF i <= Len(q) - 1 THEN ReadAll(Tail(q))[i] ELSE o[i - (Len(q) - 1)]
  <2> DEFINE p == ReadAll(Tail(q))
  <2>1. /\ b \in Seq(Msg) /\ Len(b) = Len(p) + Len(o)
        /\ \A i \in 1 .. Len(p) + Len(o) :
             b[i] = IF i <= Len(p) THEN p[i] ELSE o[i - Len(p)]
    BY <1>3, ConcatProperties
  <2>2. Len(p) = Len(q) - 1
    BY <1>3
  <2> HIDE DEF b
  <2> QED BY <2>1, <2>2
<1> HIDE DEF a, b
<1>6. a # << >>
  BY <1>1, <1>4, EmptySeq
<1>7. /\ Head(a) = a[1] /\ Tail(a) \in Seq(Msg) /\ Len(Tail(a)) = Len(a) - 1
      /\ \A i \in 1 .. Len(a) - 1 : Tail(a)[i] = a[i + 1]
  BY <1>4, <1>6, HeadTailProperties
<1>8. Head(a) = Seen(Head(q))
  <2>1. 1 \in 1 .. Len(q) + Len(o) /\ 1 <= Len(q) /\ 1 \in 1 .. Len(q)
    BY <1>1
  <2>2. a[1] = ReadAll(q)[1]
    BY <1>4, <2>1
  <2> QED BY <1>1, <1>2, <1>7, <2>1, <2>2
<1>9. Len(Tail(a)) = Len(b)
  BY <1>1, <1>4, <1>5, <1>7
<1>10. ASSUME NEW i \in 1 .. Len(Tail(a)) PROVE Tail(a)[i] = b[i]
  <2>1. /\ i \in Nat /\ i \in 1 .. Len(a) - 1 /\ i \in 1 .. (Len(q) - 1) + Len(o)
        /\ i + 1 \in 1 .. Len(q) + Len(o)
    BY <1>1, <1>4, <1>7
  <2>2. Tail(a)[i] = a[i + 1]
    BY <1>7, <2>1
  <2>3. CASE i <= Len(q) - 1
    <3>1. i \in 1 .. Len(q) - 1 /\ i + 1 \in 1 .. Len(q) /\ i + 1 <= Len(q)
      BY <1>1, <2>1, <2>3
    <3>2. a[i + 1] = Seen(q[i + 1])
      BY <1>2, <1>4, <2>1, <3>1
    <3>3. b[i] = Seen(q[i + 1])
      BY <1>1, <1>3, <1>5, <2>1, <2>3, <3>1
    <3> QED BY <2>2, <3>2, <3>3
  <2>4. CASE ~(i <= Len(q) - 1)
    <3>1. ~(i + 1 <= Len(q)) /\ (i + 1) - Len(q) = i - (Len(q) - 1)
      BY <1>1, <2>1, <2>4
    <3>2. a[i + 1] = o[(i + 1) - Len(q)]
      BY <1>4, <2>1, <3>1
    <3>3. b[i] = o[i - (Len(q) - 1)]
      BY <1>5, <2>1, <2>4
    <3> QED BY <2>2, <3>1, <3>2, <3>3
  <2> QED BY <2>3, <2>4
<1>11. Tail(a) = b
  BY <1>5, <1>7, <1>9, <1>10, SeqEqual
<1> QED BY <1>6, <1>8, <1>11 DEF a, b

(* The broadcast sends the notice of the table its message is about.       *)
NoticeInv == spc = "bcast" => sync = Notice(cur.l)

RefInv == TypeOK /\ SlotsInv /\ ServerInv /\ FreshInv /\ NoticeInv

(* Only a command and a flush start a broadcast.                           *)
LEMMA NoticeStep == NoticeInv /\ [Next]_vars => NoticeInv'
<1> SUFFICES ASSUME NoticeInv, [Next]_vars PROVE NoticeInv'
  OBVIOUS
<1>1. ASSUME NEW m \in Commands, SCommand(m) PROVE NoticeInv'
  BY <1>1 DEF SCommand, NoticeInv
<1>2. CASE SFlush
  <2>1. cur' = NoneMsg /\ sync' = RT
    BY <1>2 DEF SFlush, FlushServer
  <2>2. NoneMsg.l = "L3"
    BY DEF NoneMsg, ZeroMsg
  <2> QED BY <2>1, <2>2 DEF NoticeInv, Notice
<1>3. CASE SBcast \/ UNCHANGED vars
  BY <1>3 DEF SBcast, NoticeInv, vars, svars
<1>4. CASE \/ SAccept \/ SDumpEntry \/ SDumpNotice \/ SBcastDone \/ SSelectClients \/ SStatus
           \/ SStatusDone \/ SSigpipe \/ SSigint \/ SGoodbye \/ SExit \/ SBadMask \/ SCrash
  <2>1. spc' # "bcast"
    BY <1>4 DEF SAccept, SDumpEntry, SDumpNotice, SBcastDone, SSelectClients, SStatus, SStatusDone,
                SSigpipe, SSigint, SGoodbye, SExit, SBadMask, SCrash, NextIteration
  <2> QED BY <2>1 DEF NoticeInv
<1>5. ASSUME NEW c \in Clients, CNext(c) PROVE NoticeInv'
  <2>1. UNCHANGED <<spc, cur, sync>>
    BY <1>5 DEF CNext, CRun, CConnect, CSendPid, CRegister, CRecv, CAnswer, CCutOff, CEof, CQuit, CKill, svars
  <2> QED BY <2>1 DEF NoticeInv
<1> QED BY <1>1, <1>2, <1>3, <1>4, <1>5 DEF Next, SNext, SRun

(* A member's queue is its Due.                                            *)
LEMMA QueueIsDue ==
  /\ Queue = [c \in Clients |-> IF c \in MemberOf THEN Due(c) ELSE << >>]
  /\ Queue' = [c \in Clients |-> IF c \in MemberOf' THEN Due(c)' ELSE << >>]
BY DEF Queue

(* What is owed is a sequence of messages.                                 *)
LEMMA OwedTyped ==
  ASSUME RefInv, Serving, NEW c \in Clients
  PROVE  Owed(c) \in Seq(Msg) /\ (spc \in {"select", "status"} => Owed(c) = << >>)
<1>1. TypeOK /\ ServerInv /\ tbl \in Tables /\ cur \in Msg /\ << >> \in Seq(Msg)
  BY EmptySeq DEF RefInv, TypeOK
<1>2. Len(tbl["L3"]) \in Nat /\ Len(tbl["L2"]) \in Nat
  BY <1>1, LenProperties DEF Tables, Layers
<1>3. 0 \in 0 .. Len(tbl["L2"]) /\ "L2" \in Layers /\ "L3" \in Layers
  BY <1>2 DEF Layers
<1>4. Copy(tbl, "L2", 0) \in Seq(Msg)
  BY <1>1, <1>3, CopyUnfolds
<1>5. CASE Unserved(c)
  <2>1. <<Plain(cur)>> \in Seq(Msg)
    BY <1>1, PlainTyped
  <2> QED BY <1>5, <2>1 DEF Owed, Unserved
<1>6. CASE ~Unserved(c) /\ spc = "dump" /\ newc = c
  <2>1. pos \in 0 .. Len(tbl[dl]) /\ dl \in Layers
    BY <1>1, <1>2, <1>6 DEF TypeOK, ServerInv, Layers
  <2>2. Copy(tbl, dl, pos) \in Seq(Msg)
    BY <1>1, <2>1, CopyUnfolds
  <2>3. CASE dl = "L3"
    <3>1. Copy(tbl, "L3", pos) \o Copy(tbl, "L2", 0) \in Seq(Msg)
      BY <1>4, <2>2, <2>3, ConcatProperties
    <3> QED BY <1>6, <2>3, <3>1 DEF Owed
  <2>4. CASE dl = "L2"
    BY <1>6, <2>2, <2>4 DEF Owed
  <2> QED BY <2>1, <2>3, <2>4 DEF Layers
<1>7. CASE ~Unserved(c) /\ ~(spc = "dump" /\ newc = c)
  BY <1>1, <1>7 DEF Owed
<1>8. spc \in {"select", "status"} => Owed(c) = << >>
  BY DEF Owed, Unserved
<1> QED BY <1>5, <1>6, <1>7, <1>8

(* Every entry and notice of a dump, and every turn of a broadcast, moves  *)
(* one message from what is owed into the socket.                          *)
LEMMA DueKept ==
  ASSUME NEW c \in Clients, NEW q \in Seq(Frames), NEW f \in Frames, NEW o \in Seq(Msg),
         chan[c] = q, chan'[c] = Append(q, f), Owed(c)' = o, Owed(c) = <<Seen(f)>> \o o
  PROVE  Due(c)' = Due(c)
<1>1. ReadAll(Append(q, f)) \o o = ReadAll(q) \o (<<Seen(f)>> \o o)
  BY WriteMoves
<1> QED BY <1>1 DEF Due

-----------------------------------------------------------------------------
(* The abstract steps, from what a step does to members, tables and Due.   *)

(* A step that members do not notice is a stutter.                         *)
LEMMA MapStutter ==
  ASSUME Serving, Serving', tbl' = tbl,
         \A c \in Clients : Monitored(c)' <=> Monitored(c),
         \A c \in Clients : Monitored(c) => ctbl'[c] = ctbl[c] /\ Due(c)' = Due(c)
  PROVE  UNCHANGED Replication!rvars
<1>1. MemberOf' = MemberOf
  BY DEF MemberOf
<1>2. View' = View
  BY <1>1 DEF View, MemberOf
<1>3. Queue' = Queue
  BY <1>1, QueueIsDue DEF MemberOf
<1>4. Serving' = Serving /\ (IF Serving THEN tbl ELSE EmptyTables)' = IF Serving THEN tbl ELSE EmptyTables
  BY DEF Serving
<1> QED BY <1>1, <1>2, <1>3, <1>4 DEF Replication!rvars

(* A client that gets a slot joins.                                        *)
LEMMA MapJoin ==
  ASSUME Serving, Serving', tbl' = tbl, NEW d \in Clients,
         ~Monitored(d), ctbl'[d] = EmptyTables,
         Due(d)' = Copy(tbl, "L3", 0) \o Copy(tbl, "L2", 0),
         \A c \in Clients : Monitored(c)' <=> (Monitored(c) \/ c = d),
         \A c \in Clients : Monitored(c) => ctbl'[c] = ctbl[c] /\ Due(c)' = Due(c)
  PROVE  Replication!Join(d)
<1>1. MemberOf' = MemberOf \cup {d} /\ d \notin MemberOf
  BY DEF MemberOf
<1>2. View' = View
  BY <1>1 DEF View, MemberOf
<1>3. Queue' = [Queue EXCEPT ![d] = Copy(tbl, "L3", 0) \o Copy(tbl, "L2", 0)]
  <2>1. \A c \in Clients : c # d =>
          (IF c \in MemberOf' THEN Due(c)' ELSE << >>) = IF c \in MemberOf THEN Due(c) ELSE << >>
    BY <1>1 DEF MemberOf
  <2>2. d \in MemberOf'
    BY <1>1
  <2> QED BY <2>1, <2>2, QueueIsDue
<1>4. (IF Serving THEN tbl ELSE EmptyTables) = tbl /\ (IF Serving THEN tbl ELSE EmptyTables)' = tbl
      /\ Serving' = Serving
  BY DEF Serving
<1> QED BY <1>1, <1>2, <1>3, <1>4, SameOperators DEF Replication!Join

(* A command reaches the tables and every member's queue at once.          *)
LEMMA MapChange ==
  ASSUME Serving, Serving', NEW m \in Commands, tbl' = Apply(tbl, m),
         \A c \in Clients : Monitored(c)' <=> Monitored(c),
         \A c \in Clients : Monitored(c) => ctbl'[c] = ctbl[c] /\ Due(c)' = Append(Due(c), Plain(m))
  PROVE  Replication!Change(m)
<1>1. MemberOf' = MemberOf /\ \A c \in MemberOf : c \in Clients /\ Monitored(c)
  BY DEF MemberOf
<1>2. View' = View
  BY <1>1 DEF View
<1>3. Queue' = [c \in Clients |-> IF c \in MemberOf THEN Append(Queue[c], Plain(m)) ELSE Queue[c]]
  BY <1>1, QueueIsDue
<1>4. (IF Serving THEN tbl ELSE EmptyTables) = tbl
      /\ (IF Serving THEN tbl ELSE EmptyTables)' = Apply(tbl, m) /\ Serving' = Serving
  BY DEF Serving
<1> QED BY <1>1, <1>2, <1>3, <1>4, SameOperators DEF Replication!Change

(* A member reads the first message of its queue.                          *)
LEMMA MapDeliver ==
  ASSUME Serving, Serving', tbl' = tbl, NEW d \in Clients, Monitored(d), Due(d) # << >>,
         ctbl'[d] = Apply(ctbl[d], Head(Due(d))), Due(d)' = Tail(Due(d)),
         \A c \in Clients : Monitored(c)' <=> Monitored(c),
         \A c \in Clients : c # d => ctbl'[c] = ctbl[c] /\ Due(c)' = Due(c)
  PROVE  Replication!Deliver(d)
<1>1. MemberOf' = MemberOf /\ d \in MemberOf
  BY DEF MemberOf
<1>2. Queue[d] = Due(d) /\ View[d] = ctbl[d]
  BY <1>1, QueueIsDue DEF View
<1>3. View' = [View EXCEPT ![d] = Apply(View[d], Head(Queue[d]))]
  BY <1>1, <1>2 DEF View
<1>4. Queue' = [Queue EXCEPT ![d] = Tail(Queue[d])]
  BY <1>1, <1>2, QueueIsDue
<1>5. (IF Serving THEN tbl ELSE EmptyTables)' = (IF Serving THEN tbl ELSE EmptyTables)
      /\ Serving' = Serving
  BY DEF Serving
<1> QED BY <1>1, <1>2, <1>3, <1>4, <1>5, SameOperators DEF Replication!Deliver

(* A client whose slot is freed leaves.                                    *)
LEMMA MapLeave ==
  ASSUME Serving, Serving', tbl' = tbl, NEW d \in Clients, Monitored(d),
         \A c \in Clients : Monitored(c)' <=> (Monitored(c) /\ c # d),
         \A c \in Clients : ctbl'[c] = ctbl[c] /\ Due(c)' = Due(c)
  PROVE  Replication!Leave(d)
<1>1. MemberOf' = MemberOf \ {d} /\ d \in MemberOf
  BY DEF MemberOf
<1>2. View' = [View EXCEPT ![d] = EmptyTables]
  BY <1>1 DEF View
<1>3. Queue' = [Queue EXCEPT ![d] = << >>]
  BY <1>1, QueueIsDue
<1>4. (IF Serving THEN tbl ELSE EmptyTables)' = (IF Serving THEN tbl ELSE EmptyTables)
      /\ Serving' = Serving
  BY DEF Serving
<1> QED BY <1>1, <1>2, <1>3, <1>4, SameOperators DEF Replication!Leave

(* The promise ends with the server, and nothing is promised after that.   *)
LEMMA MapStop ==
  /\ Serving /\ ~Serving' => Replication!Stop
  /\ ~Serving /\ ~Serving' => UNCHANGED Replication!rvars
<1>1. ~Serving => /\ MemberOf = {} /\ View = [c \in Clients |-> EmptyTables]
                  /\ Queue = [c \in Clients |-> << >>]
  BY DEF MemberOf, View, Queue
<1>2. ~Serving' => /\ MemberOf' = {} /\ View' = [c \in Clients |-> EmptyTables]
                   /\ Queue' = [c \in Clients |-> << >>]
  BY DEF MemberOf, View, Queue
<1>3. ~Serving' => Serving' = FALSE /\ (IF Serving THEN tbl ELSE EmptyTables)' = EmptyTables
  BY DEF Serving
<1>4. ~Serving => Serving = FALSE /\ (IF Serving THEN tbl ELSE EmptyTables) = EmptyTables
  BY DEF Serving
<1>5. Serving /\ ~Serving' => Replication!Stop
  BY <1>2, <1>3, SameOperators DEF Replication!Stop, Replication!Blank, Replication!Nothing
<1>6. ~Serving /\ ~Serving' => UNCHANGED Replication!rvars
  BY <1>1, <1>2, <1>3, <1>4 DEF Replication!rvars
<1> QED BY <1>5, <1>6
-----------------------------------------------------------------------------
(* The steps of the server and of the clients, mapped.                     *)

(* A whole copy is a sequence of messages.                                 *)
LEMMA CopyTyped ==
  ASSUME NEW t \in Tables
  PROVE  Copy(t, "L3", 0) \in Seq(Msg) /\ Copy(t, "L2", 0) \in Seq(Msg)
<1>1. ASSUME NEW l \in Layers PROVE Copy(t, l, 0) \in Seq(Msg)
  <2>1. Len(t[l]) \in Nat
    BY LenProperties DEF Tables
  <2>2. 0 \in 0 .. Len(t[l])
    BY <2>1
  <2> QED BY <2>2, CopyUnfolds
<1>2. "L3" \in Layers /\ "L2" \in Layers
  BY DEF Layers
<1> QED BY <1>1, <1>2

(* A client that is accepted joins, or finds every slot taken.             *)
LEMMA AcceptMaps ==
  ASSUME RefInv, SAccept
  PROVE  (\E d \in Clients : Replication!Join(d)) \/ UNCHANGED Replication!rvars
<1>0. PICK d \in Clients : d = Head(backlog)
  BY HeadTailProperties DEF SAccept, RefInv, TypeOK
<1>1. /\ spc = "select" /\ spc' = "dump" /\ pos' = 0 /\ dl = "L3" /\ dl' = dl /\ newc' = d
      /\ tbl' = tbl /\ UNCHANGED <<ctbl, chan>> /\ AddFd(d) /\ backlog # << >>
  BY <1>0 DEF SAccept, AddPid, AddFd, cvars, RefInv, ServerInv
<1>2. Serving /\ Serving'
  BY <1>1 DEF Serving
<1>3. d \in ToSet(backlog)
  BY <1>0, <1>1, HeadTailProperties, EmptySeq, LenProperties DEF RefInv, TypeOK, ToSet
<1>4. ctbl[d] = EmptyTables /\ chan[d] = << >>
  BY <1>2, <1>3 DEF RefInv, FreshInv
<1>5. ~Monitored(d)
  BY <1>3, NoneAssumption DEF RefInv, SlotsInv, SlotsDistinct, Monitored
<1>6. ASSUME NEW c \in Clients, c # d PROVE Due(c)' = Due(c)
  <2>1. Owed(c) = << >> /\ Owed(c)' = << >>
    BY <1>1, <1>6 DEF Owed, Unserved
  <2> QED BY <1>1, <2>1 DEF Due
<1>7. CASE UNCHANGED fds
  <2>1. \A c \in Clients : Monitored(c)' <=> Monitored(c)
    BY <1>7 DEF Monitored
  <2> QED BY <1>1, <1>2, <1>5, <1>6, <2>1, MapStutter
<1>8. CASE \E s \in Slots : fds[s] = None /\ fds' = [fds EXCEPT ![s] = d]
  <2>1. PICK s \in Slots : fds[s] = None /\ fds' = [fds EXCEPT ![s] = d]
    BY <1>8
  <2>2. fds'[s] = d /\ \A t \in Slots : t # s => fds'[t] = fds[t]
    BY <2>1 DEF RefInv, TypeOK
  <2>3. \A c \in Clients : Monitored(c)' <=> (Monitored(c) \/ c = d)
    BY <2>1, <2>2, NoneAssumption DEF Monitored
  <2>4. Due(d)' = Copy(tbl, "L3", 0) \o Copy(tbl, "L2", 0)
    <3>1. Owed(d)' = Copy(tbl, "L3", 0) \o Copy(tbl, "L2", 0)
      <4>1. ~Unserved(d)'
        BY <1>1 DEF Unserved
      <4>2. Owed(d)' = Copy(tbl', "L3", pos') \o Copy(tbl', "L2", 0)
        BY <1>1, <4>1 DEF Owed
      <4> QED BY <1>1, <4>2
    <3>2. tbl \in Tables
      BY DEF RefInv, TypeOK
    <3>3. Copy(tbl, "L3", 0) \in Seq(Msg) /\ Copy(tbl, "L2", 0) \in Seq(Msg)
      BY <3>2, CopyTyped
    <3>4. Copy(tbl, "L3", 0) \o Copy(tbl, "L2", 0) \in Seq(Msg)
      BY <3>3, ConcatProperties
    <3>5. chan'[d] = << >> /\ ReadAll(chan'[d]) = << >>
      BY <1>1, <1>4, ReadNothing
    <3> QED BY <3>1, <3>4, <3>5, ConcatEmptySeq DEF Due
  <2>5. \A c \in Clients : Monitored(c) => ctbl'[c] = ctbl[c] /\ Due(c)' = Due(c)
    BY <1>1, <1>5, <1>6
  <2> QED BY <1>1, <1>2, <1>4, <1>5, <2>3, <2>4, <2>5, MapJoin
<1> QED BY <1>1, <1>7, <1>8 DEF AddFd

(* An entry of the dump moves from what the new client is owed into its    *)
(* socket.                                                                 *)
LEMMA DumpEntryMaps ==
  ASSUME Uniform, RefInv, SDumpEntry
  PROVE  UNCHANGED Replication!rvars
<1> DEFINE m == DumpMsg(cur, dl, tbl[dl][pos + 1])
           f == Frame(m, sync, 1)
<1>1. TypeOK /\ ServerInv
  BY DEF RefInv
<1>2. m \in Msg /\ m.op = "CREATE" /\ m.l = dl /\ Entry(m) = tbl[dl][pos + 1]
  BY <1>1, DumpMsgFaithful
<1>3. /\ spc = "dump" /\ spc' = "dump" /\ newc' = newc /\ dl' = dl /\ pos' = pos + 1
      /\ tbl' = tbl /\ fds' = fds /\ ctbl' = ctbl /\ chan' = [chan EXCEPT ![newc] = Append(@, f)]
      /\ pos < Len(tbl[dl])
  BY DEF SDumpEntry, Push
<1> HIDE DEF m
<1>4. f \in Frames /\ f.msg = m
  <2>1. sync \in 0 .. CUT
    BY <1>1 DEF TypeOK
  <2>2. f \in Frames
    BY <1>2, <2>1, FrameTyped
  <2>3. f.msg = m
    BY DEF Frame
  <2> QED BY <2>2, <2>3
<1> HIDE DEF f
<1>5. Serving /\ Serving'
  BY <1>3 DEF Serving
<1>6. Seen(f) = Item("CREATE", dl, tbl[dl][pos + 1])
  BY <1>2, <1>4 DEF Seen, Plain
<1>7. /\ tbl \in Tables /\ dl \in Layers /\ pos \in Nat /\ Len(tbl[dl]) \in Nat
      /\ pos \in 0 .. Len(tbl[dl]) /\ pos + 1 \in 0 .. Len(tbl[dl])
  BY <1>1, <1>3, LenProperties DEF TypeOK, Tables
<1>8. /\ Copy(tbl, dl, pos + 1) \in Seq(Msg)
      /\ Copy(tbl, dl, pos) = <<Seen(f)>> \o Copy(tbl, dl, pos + 1)
  BY <1>3, <1>6, <1>7, CopyUnfolds
<1>9. newc \in Clients /\ chan[newc] \in Seq(Frames)
  BY <1>1, <1>3 DEF TypeOK
<1>10. ASSUME NEW c \in Clients PROVE Due(c)' = Due(c)
  <2>1. CASE c = newc
    <3>1. ~Unserved(c) /\ ~Unserved(c)'
      BY <1>3 DEF Unserved
    <3>2. chan'[c] = Append(chan[c], f)
      BY <1>1, <1>3, <2>1 DEF TypeOK
    <3>3. CASE dl = "L2"
      <4>1. Owed(c) = Copy(tbl, "L2", pos) /\ Owed(c)' = Copy(tbl, "L2", pos + 1)
        BY <1>3, <2>1, <3>1, <3>3 DEF Owed
      <4> QED BY <1>4, <1>8, <1>9, <2>1, <3>2, <3>3, <4>1, DueKept
    <3>4. CASE dl = "L3"
      <4> DEFINE rest == Copy(tbl, "L2", 0)
      <4>1. Owed(c) = Copy(tbl, "L3", pos) \o rest /\ Owed(c)' = Copy(tbl, "L3", pos + 1) \o rest
        BY <1>3, <2>1, <3>1, <3>4 DEF Owed
      <4>2. rest \in Seq(Msg)
        BY <1>7, CopyTyped
      <4> HIDE DEF rest
      <4>3. <<Seen(f)>> \in Seq(Msg)
        BY <1>4, SeenApplies
      <4> DEFINE tail == Copy(tbl, "L3", pos + 1)
      <4>4. tail \in Seq(Msg) /\ Copy(tbl, "L3", pos) = <<Seen(f)>> \o tail
        BY <1>8, <3>4
      <4> HIDE DEF tail
      <4>5. (<<Seen(f)>> \o tail) \o rest = <<Seen(f)>> \o (tail \o rest)
        BY <4>2, <4>3, <4>4, ConcatAssociative
      <4>6. tail \o rest \in Seq(Msg)
        BY <4>2, <4>4, ConcatProperties
      <4>7. Owed(c) = <<Seen(f)>> \o (tail \o rest) /\ Owed(c)' = tail \o rest
        BY <4>1, <4>4, <4>5 DEF tail
      <4> QED BY <1>4, <1>9, <2>1, <3>2, <4>6, <4>7, DueKept
    <3> QED BY <1>7, <3>3, <3>4 DEF Layers
  <2>2. CASE c # newc
    <3>1. chan'[c] = chan[c]
      BY <1>1, <1>3, <2>2 DEF TypeOK
    <3>2. Owed(c) = << >> /\ Owed(c)' = << >>
      BY <1>3, <2>2 DEF Owed, Unserved
    <3> QED BY <3>1, <3>2 DEF Due
  <2> QED BY <2>1, <2>2
<1>11. \A c \in Clients : Monitored(c)' <=> Monitored(c)
  BY <1>3 DEF Monitored
<1> QED BY <1>3, <1>5, <1>10, <1>11, MapStutter

(* So does the notice at the end of each table.                            *)
LEMMA DumpNoticeMaps ==
  ASSUME RefInv, SDumpNotice
  PROVE  UNCHANGED Replication!rvars
<1> DEFINE m == [cur EXCEPT !.op = "NONE"]
           f == Frame(m, Notice(dl), 1)
<1>1. TypeOK /\ ServerInv
  BY DEF RefInv
<1>2. /\ spc = "dump" /\ pos = Len(tbl[dl]) /\ tbl' = tbl /\ fds' = fds
      /\ ctbl' = ctbl /\ chan' = [chan EXCEPT ![newc] = Append(@, f)]
  BY DEF SDumpNotice, Push
<1>3. \/ dl = "L3" /\ dl' = "L2" /\ pos' = 0 /\ spc' = "dump" /\ newc' = newc
      \/ dl = "L2" /\ spc' = "select"
  BY <1>1 DEF SDumpNotice, NextIteration, TypeOK, Layers
<1>4. m \in Msg /\ m.op = "NONE"
  BY <1>1 DEF TypeOK, Msg, OpCodes
<1> HIDE DEF m
<1>5. f \in Frames /\ f.msg = m /\ f.sync = Notice(dl)
  <2>1. Notice(dl) \in 0 .. CUT
    BY DEF Notice, RT, ML
  <2>2. f \in Frames
    BY <1>4, <2>1, FrameTyped
  <2>3. f.msg = m /\ f.sync = Notice(dl)
    BY DEF Frame
  <2> QED BY <2>2, <2>3
<1> HIDE DEF f
<1>6. Serving /\ Serving'
  BY <1>2, <1>3 DEF Serving
<1>7. Seen(f) = UpToDate(dl)
  BY <1>3, <1>4, <1>5 DEF Seen, Notice, RT, ML
<1>8. /\ tbl \in Tables /\ dl \in Layers /\ Len(tbl["L3"]) \in Nat /\ Len(tbl["L2"]) \in Nat
  BY <1>1, LenProperties DEF TypeOK, Tables, Layers
<1>9. /\ Copy(tbl, dl, pos) = <<Seen(f)>>
      /\ Copy(tbl, "L2", 0) \in Seq(Msg)
  <2>1. pos \in 0 .. Len(tbl[dl]) /\ 0 \in 0 .. Len(tbl["L2"])
    BY <1>2, <1>8 DEF Layers
  <2>2. Copy(tbl, dl, pos) = <<Seen(f)>>
    BY <1>2, <1>7, <1>8, <2>1, CopyUnfolds
  <2>3. Copy(tbl, "L2", 0) \in Seq(Msg)
    BY <1>8, <2>1, CopyUnfolds DEF Layers
  <2> QED BY <2>2, <2>3
<1>10. newc \in Clients /\ chan[newc] \in Seq(Frames)
  BY <1>1, <1>2 DEF TypeOK
<1>11. <<Seen(f)>> \in Seq(Msg) /\ << >> \in Seq(Msg)
  BY <1>5, SeenApplies, EmptySeq
<1>12. ASSUME NEW c \in Clients PROVE Due(c)' = Due(c)
  <2>1. CASE c = newc
    <3>1. ~Unserved(c) /\ ~Unserved(c)'
      BY <1>2, <1>3 DEF Unserved
    <3>2. chan'[c] = Append(chan[c], f)
      BY <1>1, <1>2, <2>1 DEF TypeOK
    <3>3. CASE dl = "L2"
      <4>1. Owed(c) = <<Seen(f)>> /\ Owed(c)' = << >>
        BY <1>2, <1>3, <1>9, <2>1, <3>1, <3>3 DEF Owed
      <4>2. <<Seen(f)>> = <<Seen(f)>> \o << >>
        BY <1>11, ConcatEmptySeq
      <4> QED BY <1>5, <1>10, <1>11, <2>1, <3>2, <4>1, <4>2, DueKept
    <3>4. CASE dl = "L3"
      <4>1. Owed(c) = <<Seen(f)>> \o Copy(tbl, "L2", 0) /\ Owed(c)' = Copy(tbl, "L2", 0)
        BY <1>2, <1>3, <1>9, <2>1, <3>1, <3>4 DEF Owed
      <4> QED BY <1>5, <1>9, <1>10, <2>1, <3>2, <4>1, DueKept
    <3> QED BY <1>8, <3>3, <3>4 DEF Layers
  <2>2. CASE c # newc
    <3>1. chan'[c] = chan[c]
      BY <1>1, <1>2, <2>2 DEF TypeOK
    <3>2. Owed(c) = << >> /\ Owed(c)' = << >>
      BY <1>2, <1>3, <2>2 DEF Owed, Unserved
    <3> QED BY <3>1, <3>2 DEF Due
  <2> QED BY <2>1, <2>2
<1>13. \A c \in Clients : Monitored(c)' <=> Monitored(c)
  BY <1>2 DEF Monitored
<1> QED BY <1>2, <1>6, <1>12, <1>13, MapStutter

(* A command changes the tables and is owed to every member.               *)
LEMMA CommandMaps ==
  ASSUME RefInv, NEW m \in Commands, SCommand(m)
  PROVE  Replication!Change(m)
<1>1. /\ spc = "select" /\ spc' = "bcast" /\ pos' = 2 /\ fds' = fds /\ cur' = m
      /\ tbl' = Apply(tbl, m) /\ UNCHANGED <<ctbl, chan>>
  BY DEF SCommand, cvars
<1>2. Serving /\ Serving'
  BY <1>1 DEF Serving
<1>3. \A c \in Clients : Monitored(c)' <=> Monitored(c)
  BY <1>1 DEF Monitored
<1>4. ASSUME NEW c \in Clients, Monitored(c) PROVE Due(c)' = Append(Due(c), Plain(m))
  <2>1. Unserved(c)'
    BY <1>1, <1>4, MaxClientsAssumption DEF Unserved, Monitored, Slots
  <2>2. Owed(c)' = <<Plain(m)>> /\ Owed(c) = << >>
    BY <1>1, <2>1 DEF Owed, Unserved
  <2>3. chan[c] \in Seq(Frames) /\ Plain(m) \in Msg
    BY MessagesTyped, PlainTyped DEF RefInv, TypeOK
  <2>4. ReadAll(chan[c]) \in Seq(Msg)
    BY <2>3, ReadAllProperties
  <2>5. /\ ReadAll(chan[c]) \o << >> = ReadAll(chan[c])
        /\ Append(ReadAll(chan[c]), Plain(m)) = ReadAll(chan[c]) \o <<Plain(m)>>
    BY <2>3, <2>4, ConcatEmptySeq, AppendIsConcat
  <2> QED BY <1>1, <2>2, <2>5 DEF Due
<1> QED BY <1>1, <1>2, <1>3, <1>4, MapChange

(* A turn of the broadcast moves the message of one member.                *)
LEMMA BcastMaps ==
  ASSUME RefInv, SBcast
  PROVE  UNCHANGED Replication!rvars
<1> DEFINE f == Frame(cur, sync, 1)
<1>1. TypeOK
  BY DEF RefInv
<1>2. /\ spc = "bcast" /\ spc' = "bcast" /\ pos' = pos + 1 /\ pos \in Slots /\ pos \in Nat
      /\ UNCHANGED <<fds, tbl, cur, ctbl>>
  BY <1>1, MaxClientsAssumption DEF SBcast, TypeOK, Slots
<1>3. \A c \in Clients : chan'[c] = IF fds[pos] = c THEN Append(chan[c], f) ELSE chan[c]
  BY <1>1, <1>2, NoneAssumption DEF SBcast, Push, TypeOK
<1>4. f \in Frames /\ f.msg = cur /\ f.sync = Notice(cur.l) /\ cur \in Msg
  <2>1. cur \in Msg /\ sync \in 0 .. CUT
    BY <1>1 DEF TypeOK
  <2>2. f \in Frames
    BY <2>1, FrameTyped
  <2>3. f.msg = cur /\ f.sync = sync
    BY DEF Frame
  <2> QED BY <1>2, <2>1, <2>2, <2>3 DEF RefInv, NoticeInv
<1> HIDE DEF f
<1>5. Serving /\ Serving'
  BY <1>2 DEF Serving
<1>6. Seen(f) = Plain(cur)
  <2>1. cur.l \in Layers
    BY <1>4 DEF Msg
  <2> QED BY <1>4, <2>1 DEF Seen, Plain, Notice, RT, ML, Layers
<1>7. <<Seen(f)>> \in Seq(Msg) /\ << >> \in Seq(Msg)
  BY <1>4, SeenApplies, EmptySeq
<1>8. ASSUME NEW c \in Clients, Monitored(c) PROVE Due(c)' = Due(c)
  <2>1. CASE fds[pos] = c
    <3>1. Unserved(c)
      BY <1>2, <2>1 DEF Unserved
    <3>2. ~Unserved(c)'
      <4>1. \A s, t \in Slots : fds[s] = c /\ fds[t] = c => s = t
        BY <1>8, NoneAssumption DEF RefInv, SlotsInv, SlotsDistinct
      <4>2. \A s \in Slots : s >= pos + 1 => fds[s] # c
        BY <1>2, <2>1, <4>1
      <4> QED BY <1>2, <4>2 DEF Unserved
    <3>3. Owed(c) = <<Seen(f)>> /\ Owed(c)' = << >>
      BY <1>2, <1>6, <3>1, <3>2 DEF Owed
    <3>4. <<Seen(f)>> = <<Seen(f)>> \o << >>
      BY <1>7, ConcatEmptySeq
    <3>5. chan[c] \in Seq(Frames) /\ chan'[c] = Append(chan[c], f)
      BY <1>1, <1>3, <2>1 DEF TypeOK
    <3> QED BY <1>4, <1>7, <3>3, <3>4, <3>5, DueKept
  <2>2. CASE fds[pos] # c
    <3>1. Unserved(c)' <=> Unserved(c)
      <4>1. \A s \in Slots : s \in Nat
        BY MaxClientsAssumption DEF Slots
      <4> QED BY <1>2, <2>2, <4>1 DEF Unserved
    <3>2. Owed(c)' = Owed(c)
      BY <1>2, <3>1 DEF Owed
    <3>3. chan'[c] = chan[c]
      BY <1>3, <2>2
    <3> QED BY <3>2, <3>3 DEF Due
  <2> QED BY <2>1, <2>2
<1>9. \A c \in Clients : Monitored(c)' <=> Monitored(c)
  BY <1>2 DEF Monitored
<1> QED BY <1>2, <1>5, <1>8, <1>9, MapStutter

(* The ends of the loops and the choice of select show nothing.            *)
LEMMA TurnMaps ==
  ASSUME RefInv, SBcastDone \/ SSelectClients \/ SStatusDone
  PROVE  UNCHANGED Replication!rvars
<1>1. /\ spc \in {"bcast", "select", "status"}
      /\ spc = "bcast" => pos = MaxClients
      /\ spc' \in {"select", "status"} /\ UNCHANGED <<tbl, fds, ctbl, chan>>
  BY DEF SBcastDone, SSelectClients, SStatusDone, NextIteration, cvars
<1>2. \A c : ~Unserved(c)
  BY <1>1, MaxClientsAssumption DEF Unserved, Slots
<1>3. \A c \in Clients : Owed(c) = << >> /\ Owed(c)' = << >>
  BY <1>1, <1>2 DEF Owed, Unserved
<1>4. \A c \in Clients : Due(c)' = Due(c)
  BY <1>1, <1>3 DEF Due
<1>5. \A c \in Clients : Monitored(c)' <=> Monitored(c)
  BY <1>1 DEF Monitored
<1>6. Serving /\ Serving'
  BY <1>1 DEF Serving
<1> QED BY <1>1, <1>4, <1>5, <1>6, MapStutter

(* A member whose slot is freed leaves.                                    *)
LEMMA StatusMaps ==
  ASSUME RefInv, SStatus, Serving'
  PROVE  (\E d \in Clients : Replication!Leave(d)) \/ UNCHANGED Replication!rvars
<1>1. /\ spc = "status" /\ spc' \in {"status", "killed"} /\ UNCHANGED <<tbl, ctbl, chan>>
      /\ fds' = fds \/ fds' = [fds EXCEPT ![pos] = None]
      /\ pos \in Slots
  BY MaxClientsAssumption DEF SStatus, cvars, RefInv, TypeOK, Slots
<1>2. Serving /\ spc' = "status"
  BY <1>1 DEF Serving
<1>3. \A c \in Clients : Owed(c) = << >> /\ Owed(c)' = << >>
  BY <1>1, <1>2 DEF Owed, Unserved
<1>4. \A c \in Clients : ctbl'[c] = ctbl[c] /\ Due(c)' = Due(c)
  BY <1>1, <1>3 DEF Due
<1>5. fds \in [Slots -> Clients \cup {None}]
  BY DEF RefInv, TypeOK
<1>6. CASE fds' = fds \/ fds[pos] = None
  <2>1. fds' = fds
    BY <1>1, <1>5, <1>6
  <2>2. \A c \in Clients : Monitored(c)' <=> Monitored(c)
    BY <2>1 DEF Monitored
  <2> QED BY <1>1, <1>2, <1>4, <2>2, MapStutter
<1>7. CASE fds' = [fds EXCEPT ![pos] = None] /\ fds[pos] # None
  <2>1. PICK d \in Clients : d = fds[pos]
    BY <1>1, <1>5, <1>7
  <2>2. \A s, t \in Slots : fds[s] = fds[t] /\ fds[s] # None => s = t
    BY DEF RefInv, SlotsInv, SlotsDistinct
  <2>3. fds'[pos] = None /\ \A s \in Slots : s # pos => fds'[s] = fds[s] /\ fds[s] # d
    BY <1>1, <1>5, <1>7, <2>1, <2>2
  <2>4. \A c \in Clients : Monitored(c)' <=> (Monitored(c) /\ c # d)
    BY <1>1, <2>1, <2>3, NoneAssumption DEF Monitored
  <2>5. Monitored(d)
    BY <1>1, <2>1 DEF Monitored
  <2> QED BY <1>1, <1>2, <1>4, <2>4, <2>5, MapLeave
<1> QED BY <1>1, <1>6, <1>7

(* A member that reads a frame takes the first message of its queue.       *)
LEMMA RecvMaps ==
  ASSUME RefInv, Serving, NEW d \in Clients, CRecv(d)
  PROVE  Replication!Deliver(d) \/ UNCHANGED Replication!rvars
<1>1. /\ UNCHANGED svars /\ chan[d] # << >> /\ chan[d] \in Seq(Frames) /\ ctbl[d] \in Tables
      /\ ctbl'[d] = Apply(ctbl[d], Head(chan[d]).msg) /\ chan'[d] = Tail(chan[d])
      /\ \A c \in Clients : c # d => ctbl'[c] = ctbl[c] /\ chan'[c] = chan[c]
  BY DEF CRecv, RefInv, TypeOK
<1>2. Serving' /\ tbl' = tbl
  BY <1>1 DEF svars, Serving
<1>3. \A c \in Clients : Owed(c)' = Owed(c) /\ (Monitored(c)' <=> Monitored(c))
  BY <1>1 DEF svars, Owed, Unserved, Monitored
<1>4. \A c \in Clients : c # d => ctbl'[c] = ctbl[c] /\ Due(c)' = Due(c)
  BY <1>1, <1>3 DEF Due
<1>5. CASE ~Monitored(d)
  <2>1. \A c \in Clients : Monitored(c) => c # d
    BY <1>5
  <2> QED BY <1>2, <1>3, <1>4, <2>1, MapStutter
<1>6. CASE Monitored(d)
  <2>1. Owed(d) \in Seq(Msg) /\ Owed(d)' = Owed(d)
    BY <1>3, OwedTyped
  <2>2. /\ Due(d) # << >> /\ Head(Due(d)) = Seen(Head(chan[d]))
        /\ Tail(Due(d)) = ReadAll(Tail(chan[d])) \o Owed(d)
    BY <1>1, <2>1, ReadTakes DEF Due
  <2>3. Due(d)' = Tail(Due(d))
    BY <1>1, <2>1, <2>2 DEF Due
  <2>4. Head(chan[d]) \in Frames
    BY <1>1, HeadTailProperties
  <2>5. ctbl'[d] = Apply(ctbl[d], Head(Due(d)))
    BY <1>1, <2>2, <2>4, SeenApplies
  <2> QED BY <1>2, <1>3, <1>4, <1>6, <2>2, <2>3, <2>5, MapDeliver
<1> QED BY <1>5, <1>6

(* Nothing else that a client does while the server serves concerns it.    *)
LEMMA ClientMaps ==
  ASSUME RefInv, Serving, NEW d \in Clients, CNext(d), ~CRecv(d)
  PROVE  UNCHANGED Replication!rvars
<1>1. UNCHANGED <<tbl, spc, cur, pos, dl, newc, fds, ctbl, chan>>
  BY DEF CNext, CRun, CConnect, CSendPid, CRegister, CAnswer, CCutOff, CEof, CQuit, CKill, svars, Gone, Serving
<1>2. \A c \in Clients : Owed(c)' = Owed(c) /\ (Monitored(c)' <=> Monitored(c))
  BY <1>1 DEF Owed, Unserved, Monitored
<1>3. \A c \in Clients : ctbl'[c] = ctbl[c] /\ Due(c)' = Due(c)
  BY <1>1, <1>2 DEF Due
<1>4. Serving'
  BY <1>1 DEF Serving
<1> QED BY <1>1, <1>2, <1>3, <1>4, MapStutter
-----------------------------------------------------------------------------
(* A server that has stopped serving never serves again.                   *)
LEMMA StoppedStays == ~Serving /\ [Next]_vars => ~Serving'
<1> SUFFICES ASSUME ~Serving, [Next]_vars PROVE ~Serving'
  OBVIOUS
<1>1. CASE SNext
  BY <1>1 DEF SNext, SRun, SAccept, SDumpEntry, SDumpNotice, SBcast, SBcastDone, SSelectClients, SStatus,
              SStatusDone, SSigpipe, SSigint, SGoodbye, SExit, SBadMask, SCrash, SFlush, SCommand, Serving
<1>2. ASSUME NEW c \in Clients, CNext(c) PROVE ~Serving'
  BY <1>2 DEF CNext, CRun, CConnect, CSendPid, CRegister, CRecv, CAnswer, CCutOff, CEof, CQuit, CKill, svars, Serving
<1>3. CASE UNCHANGED vars
  BY <1>3 DEF vars, svars, Serving
<1> QED BY <1>1, <1>2, <1>3 DEF Next

(* Every step is a step of the abstract specification, or a stutter.       *)
LEMMA StepMaps ==
  ASSUME Uniform, Flush = FALSE, RefInv, [Next]_vars
  PROVE  [Replication!RNext]_(Replication!rvars)
<1>1. CASE ~Serving
  BY <1>1, StoppedStays, MapStop
<1>2. CASE Serving /\ ~Serving'
  BY <1>2, MapStop DEF Replication!RNext
<1>3. CASE Serving /\ Serving'
  <2>1. CASE SAccept
    BY <2>1, AcceptMaps DEF Replication!RNext
  <2>2. CASE SDumpEntry
    BY <2>2, DumpEntryMaps
  <2>3. CASE SDumpNotice
    BY <2>3, DumpNoticeMaps
  <2>4. ASSUME NEW m \in Commands, SCommand(m) PROVE Replication!RNext
    BY <2>4, CommandMaps DEF Replication!RNext
  <2>5. CASE SBcast
    BY <2>5, BcastMaps
  <2>6. CASE SBcastDone \/ SSelectClients \/ SStatusDone
    BY <2>6, TurnMaps
  <2>7. CASE SStatus
    BY <1>3, <2>7, StatusMaps DEF Replication!RNext
  <2>8. ~(SSigpipe \/ SSigint \/ SGoodbye \/ SExit \/ SBadMask \/ SCrash)
    BY <1>3 DEF SSigpipe, SSigint, SGoodbye, SExit, SBadMask, SCrash, Serving
  <2>9. ~SFlush
    BY DEF SFlush
  <2>10. ASSUME NEW c \in Clients, CNext(c) PROVE [Replication!RNext]_(Replication!rvars)
    BY <1>3, <2>10, RecvMaps, ClientMaps DEF Replication!RNext
  <2>11. CASE UNCHANGED vars
    <3>1. \A c \in Clients : Due(c)' = Due(c) /\ (Monitored(c)' <=> Monitored(c))
      BY <2>11 DEF vars, svars, cvars, Due, Owed, Unserved, Monitored
    <3>2. tbl' = tbl /\ ctbl' = ctbl
      BY <2>11 DEF vars, svars, cvars
    <3> QED BY <1>3, <3>1, <3>2, MapStutter
  <2> QED BY <2>1, <2>2, <2>3, <2>4, <2>5, <2>6, <2>7, <2>8, <2>9, <2>10, <2>11
             DEF Next, SNext, SRun
<1> QED BY <1>1, <1>2, <1>3

(* Nobody is a member at first.                                            *)
LEMMA InitMaps == Init => RefInv /\ Replication!RInit
<1> SUFFICES ASSUME Init PROVE RefInv /\ Replication!RInit
  OBVIOUS
<1>1. RefInv
  BY SyncInit DEF SyncInv, RefInv, NoticeInv, Init
<1>2. \A c \in Clients : ~Monitored(c)
  BY NoneAssumption DEF Init, Monitored
<1>3. MemberOf = {} /\ View = [c \in Clients |-> EmptyTables] /\ Queue = [c \in Clients |-> << >>]
  BY <1>2 DEF MemberOf, View, Queue
<1>4. Serving = TRUE /\ (IF Serving THEN tbl ELSE EmptyTables) = EmptyTables
  BY DEF Init, Serving
<1>5. Replication!RInit
  BY <1>3, <1>4, SameOperators DEF Replication!RInit, Replication!Blank, Replication!Nothing
<1> QED BY <1>1, <1>5

(* Without FLUSH and with strings of one length per field, the server      *)
(* implements TableReplication: what its blocking writes, dumps and        *)
(* broadcasts do one frame at a time shows its clients an atomic copy and  *)
(* then every update, once and in order.                                   *)
THEOREM ReplicationImplemented ==
  ASSUME Uniform, Flush = FALSE
  PROVE  Spec => Implements
<1>1. RefInv /\ [Next]_vars => RefInv'
  BY TypeStep, SlotsStep, ServerStep, FreshStep, NoticeStep DEF RefInv
<1>2. RefInv /\ [Next]_vars => [Replication!RNext]_(Replication!rvars)
  BY StepMaps
<1> QED BY <1>1, <1>2, InitMaps, PTL DEF Spec, Implements, Replication!RSpec
=============================================================================
