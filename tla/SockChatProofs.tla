-------------------------- MODULE SockChatProofs ---------------------------
(***************************************************************************)
(* The turns of the TCP chat, for any number of clients and lines, any     *)
(* frame size and any way the streams are cut.                             *)
(***************************************************************************)
EXTENDS SockChatProps, SequenceTheorems, TLAPS

(* A frame is a sequence of Units parts. *)
LEMMA FrameFacts ==
  ASSUME NEW n \in Nat, NEW e \in BOOLEAN
  PROVE  /\ Frame(n, e) \in Seq(Part) /\ Len(Frame(n, e)) = Units /\ Frame(n, e) # <<>>
         /\ Frame(n, e)[1] = [line |-> n, part |-> 1, exit |-> e]
<1>1. Units \in Nat /\ Units >= 1
  BY SizeAssumption
<1>2. \A i \in 1 .. Units : [line |-> n, part |-> i, exit |-> e] \in Part
  BY <1>1 DEF Part
<1>3. Frame(n, e) \in Seq(Part)
  BY <1>1, <1>2, IsASeq DEF Frame
<1>4. DOMAIN Frame(n, e) = 1 .. Units
  BY DEF Frame
<1>5. Len(Frame(n, e)) = Units
  BY <1>1, <1>3, <1>4, LenProperties
<1>6. Frame(n, e)[1] = [line |-> n, part |-> 1, exit |-> e]
  BY <1>1 DEF Frame
<1> QED BY <1>1, <1>3, <1>5, <1>6

(* Writing adds at the end; to an empty stream it leaves the frame alone. *)
LEMMA WriteFacts ==
  ASSUME NEW s \in Seq(Part), NEW n \in Nat, NEW e \in BOOLEAN
  PROVE  /\ s \o Frame(n, e) \in Seq(Part) /\ s \o Frame(n, e) # <<>>
         /\ s = <<>> => s \o Frame(n, e) = Frame(n, e)
<1>0. Units >= 1 /\ Units \in Nat
  BY SizeAssumption
<1>1. Frame(n, e) \in Seq(Part) /\ Len(Frame(n, e)) = Units
  BY FrameFacts
<1>2. s \o Frame(n, e) \in Seq(Part) /\ Len(s \o Frame(n, e)) = Len(s) + Units
  BY <1>1, ConcatProperties
<1>3. Len(s) \in Nat
  BY LenProperties
<1>4. s \o Frame(n, e) # <<>>
  BY <1>0, <1>2, <1>3
<1> QED BY <1>1, <1>2, <1>4, ConcatEmptySeq

(* A read takes from the front; a whole frame leaves nothing of a stream    *)
(* that held no more.                                                      *)
LEMMA ReadFacts ==
  ASSUME NEW s \in Seq(Part), NEW k \in ReadSizes(s)
  PROVE  /\ Rest(s, k) \in Seq(Part) /\ s # <<>> /\ s[1] \in Part /\ k \in 1 .. Units
         /\ k = Units /\ Len(s) <= Units => Rest(s, k) = <<>> /\ Len(s) = Units
<1>1. Units \in Nat /\ Len(s) \in Nat /\ DOMAIN s = 1 .. Len(s)
  BY SizeAssumption, LenProperties
<1>2. k \in 1 .. Units /\ k <= Len(s) /\ k \in Nat
  BY <1>1 DEF ReadSizes
<1>3. \A i \in k + 1 .. Len(s) : s[i] \in Part
  BY <1>1, <1>2, ElementOfSeq
<1>4. Rest(s, k) \in Seq(Part)
  BY <1>1, <1>2, <1>3, SubSeqProperties DEF Rest
<1>5. s # <<>> /\ s[1] \in Part
  BY <1>1, <1>2, ElementOfSeq
<1>6. ASSUME k = Units, Len(s) <= Units PROVE Rest(s, k) = <<>> /\ Len(s) = Units
  <2> DEFINE m == Len(s)
  <2>1. m \in Nat /\ k \in Nat /\ k <= m /\ m <= k
    BY <1>1, <1>2, <1>6
  <2>2. m = k /\ m < k + 1 /\ k + 1 \in Int /\ m \in Int
    <3> HIDE DEF m
    <3> QED BY <2>1
  <2>3. SubSeq(s, k + 1, m) = <<>>
    BY <2>2, SubSeqEmpty
  <2> QED BY <1>6, <2>2, <2>3 DEF Rest
<1> QED BY <1>2, <1>4, <1>5, <1>6

(* What a close keeps of a stream is a front part of it. *)
LEMMA KeptFacts ==
  ASSUME NEW s \in Seq(Part), NEW end \in EndStates, NEW t \in Kept(s, end)
  PROVE  /\ t \in Seq(Part) /\ Len(t) <= Len(s) /\ (t # <<>> => t[1] = s[1] /\ s # <<>>)
         /\ end = "fin" => t = s
<1>1. Len(s) \in Nat /\ DOMAIN s = 1 .. Len(s)
  BY LenProperties
<1>2. CASE end = "rst"
  <2>1. PICK k \in 0 .. Len(s) : t = SubSeq(s, 1, k)
    BY <1>2 DEF Kept
  <2>2. \A i \in 1 .. k : s[i] \in Part
    BY <1>1, <2>1, ElementOfSeq
  <2>3. /\ t \in Seq(Part) /\ Len(t) = (IF 1 <= k THEN k ELSE 0)
        /\ \A i \in 1 .. k : t[i] = s[i]
    BY <1>1, <2>1, <2>2, SubSeqProperties
  <2>4. ASSUME t # <<>> PROVE t[1] = s[1] /\ s # <<>>
    <3>1. k >= 1
      BY <1>1, <2>1, <2>3, <2>4, EmptySeq
    <3> QED BY <1>1, <2>1, <2>3, <3>1
  <2> QED BY <1>1, <1>2, <2>1, <2>3, <2>4
<1>3. CASE end # "rst"
  BY <1>1, <1>3 DEF Kept
<1> QED BY <1>2, <1>3

\* What the other end sees of a close: a reset if bytes were left unread.
LEMMA ClosedFacts ==
  ASSUME NEW s PROVE Closed(s) \in {"fin", "rst"} /\ Closed(s) \in EndStates /\ (s = <<>> => Closed(s) = "fin")
  BY DEF Closed, EndStates

-----------------------------------------------------------------------------
(* Wherever the turn is, something is under way to one of the two: a       *)
(* client waits only when its frame, or the answer, is not read yet, or    *)
(* the server is about to answer.                                          *)
Replying(c) == spc = "reply" /\ cur = c
TurnsKept ==
  \A c \in Clients : BothOpen(c) /\ cpc[c] = "read" /\ ~Replying(c) => up[c] # <<>> \/ down[c] # <<>>

TInv == TypeOK /\ TurnsKept

(* Nobody has connected at the start. *)
LEMMA InitTurns == Init => TInv
  BY DEF Init, TInv, TypeOK, TurnsKept, ServerStates, ClientStates, EndStates

(* The server's close: its end is closed, and the streams keep their type. *)
LEMMA SCloseFacts ==
  ASSUME TypeOK, NEW c \in Clients, NEW in \in Seq(Part), NEW out \in Seq(Part), SClose(c, in, out)
  PROVE  /\ sEnd' \in [Clients -> EndStates] /\ up' \in [Clients -> Seq(Part)] /\ down' \in [Clients -> Seq(Part)]
         /\ sEnd'[c] # "open" /\ sEnd'[c] = Closed(in) /\ up'[c] = <<>>
         /\ down'[c] \in Kept(out, Closed(in))
         /\ \A d \in Clients \ {c} : sEnd'[d] = sEnd[d] /\ up'[d] = up[d] /\ down'[d] = down[d]
<1>1. PICK s \in Kept(out, Closed(in)) : down' = [down EXCEPT ![c] = s]
  BY DEF SClose
<1>2. s \in Seq(Part) /\ Closed(in) \in {"fin", "rst"} /\ Closed(in) \in EndStates
  BY KeptFacts, ClosedFacts
<1>3. <<>> \in Seq(Part)
  BY EmptySeq
<1> QED BY <1>1, <1>2, <1>3 DEF SClose, TypeOK

(* The client's close. *)
LEMMA CCloseFacts ==
  ASSUME TypeOK, NEW c \in Clients, NEW in \in Seq(Part), NEW out \in Seq(Part), CClose(c, in, out)
  PROVE  /\ cEnd' \in [Clients -> EndStates] /\ up' \in [Clients -> Seq(Part)] /\ down' \in [Clients -> Seq(Part)]
         /\ cEnd'[c] # "open" /\ cEnd'[c] = Closed(in) /\ down'[c] = <<>>
         /\ up'[c] \in Kept(out, Closed(in))
         /\ \A d \in Clients \ {c} : cEnd'[d] = cEnd[d] /\ up'[d] = up[d] /\ down'[d] = down[d]
<1>1. PICK s \in Kept(out, Closed(in)) : up' = [up EXCEPT ![c] = s]
  BY DEF CClose
<1>2. s \in Seq(Part) /\ Closed(in) \in {"fin", "rst"} /\ Closed(in) \in EndStates
  BY KeptFacts, ClosedFacts
<1>3. <<>> \in Seq(Part)
  BY EmptySeq
<1> QED BY <1>1, <1>2, <1>3 DEF CClose, TypeOK

(* The end of the server closes the connection it serves and the queue. *)
LEMMA EndsFacts ==
  ASSUME TypeOK, NEW how \in {"dead", "stopped"}, ServerEnds(how)
  PROVE  /\ TypeOK' /\ ~Running'
         /\ \A c \in Clients : c = cur \/ (\E i \in DOMAIN backlog : backlog[i] = c) => sEnd'[c] # "open"
         /\ \A c \in Clients : c # cur /\ ~(\E i \in DOMAIN backlog : backlog[i] = c) =>
                                  sEnd'[c] = sEnd[c] /\ up'[c] = up[c]
         /\ \A c \in Clients : down'[c] = down[c]
              \/ \E end \in EndStates : down'[c] \in Kept(down[c], end)
<1> DEFINE queued(c) == \E i \in DOMAIN backlog : backlog[i] = c
           end(c)    == IF queued(c) THEN "rst" ELSE IF c = cur THEN Closed(up[c]) ELSE sEnd[c]
<1>1. /\ sEnd' = [c \in Clients |-> end(c)]
      /\ up' = [c \in Clients |-> IF queued(c) \/ c = cur THEN <<>> ELSE up[c]]
  BY DEF ServerEnds
<1>2. \A c \in Clients : end(c) \in EndStates /\ (queued(c) \/ c = cur => end(c) # "open")
  BY ClosedFacts DEF TypeOK, EndStates
<1>3. <<>> \in Seq(Part)
  BY EmptySeq
<1>4. /\ down' \in [Clients -> Seq(Part)]
      /\ \A c \in Clients : down'[c] = down[c] \/ \E e \in EndStates : down'[c] \in Kept(down[c], e)
  <2>1. CASE cur = Nobody
    BY <2>1 DEF ServerEnds, TypeOK
  <2>2. CASE cur # Nobody
    <3>1. cur \in Clients
      BY <2>2 DEF TypeOK
    <3>2. PICK s \in Kept(down[cur], end(cur)) : down' = [down EXCEPT ![cur] = s]
      BY <2>2 DEF ServerEnds
    <3>3. s \in Seq(Part)
      BY <1>2, <3>1, KeptFacts DEF TypeOK
    <3> QED BY <1>2, <3>1, <3>2, <3>3 DEF TypeOK
  <2> QED BY <2>1, <2>2
<1>5. backlog' \in Seq(Clients) /\ spc' = how /\ cur' = Nobody
  BY EmptySeq DEF ServerEnds
<1>6. TypeOK'
  <2>1. sEnd' \in [Clients -> EndStates] /\ up' \in [Clients -> Seq(Part)]
    BY <1>1, <1>2, <1>3 DEF TypeOK
  <2> QED BY <1>4, <1>5, <2>1 DEF ServerEnds, TypeOK, ServerStates
<1>7. \A c \in Clients : c = cur \/ queued(c) => sEnd'[c] # "open"
  BY <1>1, <1>2
<1>8. \A c \in Clients : c # cur /\ ~queued(c) => sEnd'[c] = sEnd[c] /\ up'[c] = up[c]
  BY <1>1
<1>9. ~Running'
  BY <1>5 DEF Running
<1> QED BY <1>4, <1>6, <1>7, <1>8, <1>9

(* The end of the server. *)
LEMMA EndsTurns == ASSUME TInv, NEW how \in {"dead", "stopped"}, ServerEnds(how) PROVE TInv'
<1>1. TypeOK' /\ UNCHANGED <<cEnd, cpc>>
  BY EndsFacts DEF ServerEnds, TInv
<1>2. ASSUME NEW d \in Clients, sEnd'[d] = "open" PROVE d # cur /\ sEnd[d] = "open" /\ up'[d] = up[d]
  BY <1>2, EndsFacts DEF TInv
<1>3. ASSUME NEW d \in Clients, d # cur PROVE down'[d] = down[d]
  BY <1>3 DEF ServerEnds, TInv, TypeOK
<1>4. TurnsKept'
  BY <1>1, <1>2, <1>3 DEF TInv, TurnsKept, BothOpen, Replying
<1> QED BY <1>1, <1>4 DEF TInv

(* The steps of the server. *)
LEMMA ServerTurns == ASSUME TInv, NEW c \in Clients, SNext(c) PROVE TInv'
<1> USE DEF TInv
<1>1. ASSUME NEW k \in 1 .. Units, SRead(c, k) PROVE TInv'
  <2>1. k \in ReadSizes(up[c]) /\ up[c] \in Seq(Part) /\ down[c] \in Seq(Part) /\ spc = "read" /\ cur = c
    BY <1>1 DEF SRead, TypeOK
  <2>2. Rest(up[c], k) \in Seq(Part) /\ up[c][1].line \in Nat
    BY <2>1, ReadFacts DEF Part
  <2>3. short' \subseteq Clients
    BY <1>1 DEF SRead, Shortened, TypeOK
  <2>4. CASE IsExit(up[c], k)
    <3>1. SClose(c, Rest(up[c], k), down[c]) /\ NextClient
      BY <1>1, <2>4 DEF SRead
    <3>2. TypeOK'
      BY <1>1, <2>1, <2>2, <2>3, <2>4, <3>1, SCloseFacts DEF SRead, NextClient, TypeOK, ServerStates
    <3>3. sEnd'[c] # "open" /\ \A d \in Clients \ {c} : sEnd'[d] = sEnd[d] /\ up'[d] = up[d] /\ down'[d] = down[d]
      BY <2>1, <2>2, <3>1, SCloseFacts
    <3>4. TurnsKept'
      BY <1>1, <2>1, <3>1, <3>3 DEF SRead, TurnsKept, BothOpen, Replying, NextClient
    <3> QED BY <3>2, <3>4
  <2>5. CASE ~IsExit(up[c], k)
    <3>1. TypeOK'
      BY <1>1, <2>2, <2>3, <2>5 DEF SRead, TypeOK, ServerStates
    <3>2. TurnsKept'
      BY <1>1, <2>1, <2>5 DEF SRead, TurnsKept, BothOpen, Replying, TypeOK
    <3> QED BY <3>1, <3>2
  <2> QED BY <2>4, <2>5
<1>2. ASSUME SReadEof(c) PROVE TInv'
  <2>1. TypeOK'
    BY <1>2 DEF SReadEof, TypeOK, ends, streams, ServerStates
  <2>2. TurnsKept'
    BY <1>2 DEF SReadEof, TurnsKept, BothOpen, Replying, ends, streams
  <2> QED BY <2>1, <2>2
<1>3. ASSUME NEW e \in BOOLEAN, SReply(c, e) PROVE TInv'
  <2> DEFINE out == IF cEnd[c] = "open" THEN down[c] \o Frame(heard, e) ELSE down[c]
  <2>1. up[c] \in Seq(Part) /\ down[c] \in Seq(Part) /\ heard \in Nat /\ spc = "reply" /\ cur = c
    BY <1>3 DEF SReply, TypeOK
  <2>2. out \in Seq(Part) /\ (cEnd[c] = "open" => out # <<>>)
    BY <2>1, WriteFacts
  <2>3. sLost' \subseteq Clients
    BY <1>3 DEF SReply, TypeOK
  <2>4. CASE e
    <3>1. SClose(c, up[c], out) /\ NextClient
      BY <1>3, <2>4 DEF SReply
    <3> HIDE DEF out
    <3>2. TypeOK'
      BY <1>3, <2>1, <2>2, <2>3, <3>1, SCloseFacts DEF SReply, NextClient, TypeOK, ServerStates
    <3>3. sEnd'[c] # "open" /\ \A d \in Clients \ {c} : sEnd'[d] = sEnd[d] /\ up'[d] = up[d] /\ down'[d] = down[d]
      BY <2>1, <2>2, <3>1, SCloseFacts
    <3>4. TurnsKept'
      BY <1>3, <2>1, <3>1, <3>3 DEF SReply, TurnsKept, BothOpen, Replying, NextClient
    <3> QED BY <3>2, <3>4
  <2>5. CASE ~e
    <3>1. down' = [down EXCEPT ![c] = out] /\ spc' = "read" /\ UNCHANGED <<cur, sEnd, up>>
      BY <1>3, <2>5 DEF SReply
    <3> HIDE DEF out
    <3>2. TypeOK'
      BY <1>3, <2>2, <2>3, <3>1 DEF SReply, TypeOK, ServerStates
    <3>3. TurnsKept'
      BY <1>3, <2>1, <2>2, <3>1 DEF SReply, TurnsKept, BothOpen, Replying, TypeOK
    <3> QED BY <3>2, <3>3
  <2> QED BY <2>4, <2>5
<1> QED BY <1>1, <1>2, <1>3, EndsTurns DEF SNext, SReset, SSigpipe

(* The steps of a client. *)
LEMMA ClientTurns == ASSUME TInv, NEW c \in Clients, CSteps(c) \/ CKill(c) PROVE TInv'
<1> USE DEF TInv
<1>1. ASSUME CConnect(c) PROVE TInv'
  <2>1. backlog' \in Seq(Clients)
    BY <1>1, AppendProperties DEF CConnect, TypeOK
  <2>2. TypeOK'
    BY <1>1, <2>1 DEF CConnect, TypeOK, ends, streams, ClientStates
  <2>3. TurnsKept'
    BY <1>1 DEF CConnect, TurnsKept, BothOpen, Replying, ends, streams, TypeOK
  <2> QED BY <2>2, <2>3
<1>2. ASSUME CRefused(c) PROVE TInv'
  <2>1. TypeOK'
    BY <1>2 DEF CRefused, TypeOK, server, ends, streams, ClientStates
  <2>2. TurnsKept'
    BY <1>2 DEF CRefused, TurnsKept, BothOpen, Replying, server, ends, streams, TypeOK
  <2> QED BY <2>1, <2>2
<1>3. ASSUME NEW e \in BOOLEAN, CSend(c, e) PROVE TInv'
  <2> DEFINE out == IF sEnd[c] = "open" THEN up[c] \o Frame(lines'[c], e) ELSE up[c]
  <2>1. /\ up[c] \in Seq(Part) /\ down[c] \in Seq(Part) /\ lines'[c] \in Nat
        /\ lines' \in [Clients -> Nat] /\ cpc' \in [Clients -> ClientStates]
    BY <1>3 DEF CSend, TypeOK, ClientStates
  <2>2. out \in Seq(Part) /\ (sEnd[c] = "open" => out # <<>>)
    BY <2>1, WriteFacts
  <2>3. cLost' \subseteq Clients
    BY <1>3 DEF CSend, TypeOK
  <2>4. CASE e
    <3>1. CClose(c, down[c], out)
      BY <1>3, <2>4 DEF CSend
    <3> HIDE DEF out
    <3>2. TypeOK'
      BY <1>3, <2>1, <2>2, <2>3, <3>1, CCloseFacts DEF CSend, server, TypeOK
    <3>3. cEnd'[c] # "open" /\ \A d \in Clients \ {c} : cEnd'[d] = cEnd[d] /\ up'[d] = up[d] /\ down'[d] = down[d]
      BY <2>1, <2>2, <3>1, CCloseFacts
    <3>4. TurnsKept'
      BY <1>3, <2>1, <3>3 DEF CSend, TurnsKept, BothOpen, Replying, server, TypeOK
    <3> QED BY <3>2, <3>4
  <2>5. CASE ~e
    <3>1. up' = [up EXCEPT ![c] = out] /\ UNCHANGED <<cEnd, down>>
      BY <1>3, <2>5 DEF CSend
    <3> HIDE DEF out
    <3>2. TypeOK'
      BY <1>3, <2>1, <2>2, <2>3, <3>1 DEF CSend, server, TypeOK
    <3>3. TurnsKept'
      BY <1>3, <2>1, <2>2, <3>1 DEF CSend, TurnsKept, BothOpen, Replying, server, TypeOK
    <3> QED BY <3>2, <3>3
  <2> QED BY <2>4, <2>5
<1>4. ASSUME NEW k \in 1 .. Units, CRead(c, k) PROVE TInv'
  <2>1. k \in ReadSizes(down[c]) /\ up[c] \in Seq(Part) /\ down[c] \in Seq(Part)
    BY <1>4 DEF CRead, TypeOK
  <2>2. Rest(down[c], k) \in Seq(Part) /\ down[c][1].line \in Nat
    BY <2>1, ReadFacts DEF Part
  <2>3. short' \subseteq Clients
    BY <1>4 DEF CRead, Shortened, TypeOK
  <2>4. CASE IsExit(down[c], k)
    <3>1. CClose(c, Rest(down[c], k), up[c]) /\ cpc' = [cpc EXCEPT ![c] = "left"] /\ UNCHANGED shown
      BY <1>4, <2>4 DEF CRead
    <3>2. TypeOK'
      BY <1>4, <2>1, <2>2, <2>3, <3>1, CCloseFacts DEF CRead, server, TypeOK, ClientStates
    <3>3. cEnd'[c] # "open" /\ \A d \in Clients \ {c} : cEnd'[d] = cEnd[d] /\ up'[d] = up[d] /\ down'[d] = down[d]
      BY <2>1, <2>2, <3>1, CCloseFacts
    <3>4. TurnsKept'
      BY <1>4, <3>1, <3>3 DEF CRead, TurnsKept, BothOpen, Replying, server, TypeOK
    <3> QED BY <3>2, <3>4
  <2>5. CASE ~IsExit(down[c], k)
    <3>1. TypeOK'
      BY <1>4, <2>2, <2>3, <2>5 DEF CRead, server, TypeOK, ClientStates
    <3>2. TurnsKept'
      BY <1>4, <2>5 DEF CRead, TurnsKept, BothOpen, Replying, server, TypeOK
    <3> QED BY <3>1, <3>2
  <2> QED BY <2>4, <2>5
<1>5. ASSUME CReadEof(c) PROVE TInv'
  <2>1. TypeOK'
    BY <1>5 DEF CReadEof, TypeOK, server, ends, streams, ClientStates
  <2>2. TurnsKept'
    BY <1>5 DEF CReadEof, TurnsKept, BothOpen, Replying, server, ends, streams, TypeOK
  <2> QED BY <2>1, <2>2
<1>6. ASSUME CFails(c) \/ CKill(c) PROVE TInv'
  <2>1. /\ cpc' = [cpc EXCEPT ![c] = "dead"] /\ CClose(c, down[c], up[c])
        /\ UNCHANGED <<server, sEnd, sLost, lines, shown, cLost, short>> /\ killed' \subseteq Clients
    BY <1>6 DEF CFails, CKill, TypeOK
  <2>2. up[c] \in Seq(Part) /\ down[c] \in Seq(Part)
    BY DEF TypeOK
  <2>3. TypeOK'
    BY <2>1, <2>2, CCloseFacts DEF server, TypeOK, ClientStates
  <2>4. \A d \in Clients \ {c} : cEnd'[d] = cEnd[d] /\ up'[d] = up[d] /\ down'[d] = down[d]
    BY <2>1, <2>2, CCloseFacts
  <2>5. TurnsKept'
    BY <2>1, <2>4 DEF TurnsKept, BothOpen, Replying, server, TypeOK
  <2> QED BY <2>3, <2>5
<1> QED BY <1>1, <1>2, <1>3, <1>4, <1>5, <1>6 DEF CSteps

\* Each step of the server and of the clients keeps the turns.
LEMMA NextTurns == TInv /\ [Next]_vars => TInv'
<1> SUFFICES ASSUME TInv, [Next]_vars PROVE TInv'
  OBVIOUS
<1>1. CASE SAccept
  <2>1. backlog \in Seq(Clients) /\ backlog # <<>>
    BY <1>1 DEF SAccept, TInv, TypeOK
  <2>2. Head(backlog) \in Clients /\ Tail(backlog) \in Seq(Clients)
    BY <2>1, HeadTailProperties
  <2>3. TypeOK'
    BY <1>1, <2>2 DEF SAccept, TInv, TypeOK, ends, streams, ServerStates
  <2>4. TurnsKept'
    BY <1>1 DEF SAccept, TInv, TurnsKept, BothOpen, Replying, ends, streams
  <2> QED BY <2>3, <2>4 DEF TInv
<1>2. CASE SKill
  BY <1>2, EndsTurns DEF SKill
<1>3. CASE UNCHANGED vars
  <2>1. TypeOK'
    BY <1>3 DEF TInv, TypeOK, vars, server
  <2>2. TurnsKept'
    BY <1>3 DEF TInv, TurnsKept, BothOpen, Replying, vars, server
  <2> QED BY <2>1, <2>2 DEF TInv
<1> QED BY <1>1, <1>2, <1>3, ServerTurns, ClientTurns DEF Next

(* The variables keep their types.                                         *)
THEOREM TypeCorrect == Spec => []TypeOK
<1>1. TInv => TypeOK
  BY DEF TInv
<1> QED BY InitTurns, NextTurns, <1>1, PTL DEF Spec

(* The server and a client never wait for each other on an open            *)
(* connection, however the streams are cut.                                *)
THEOREM NoMutualWait == Spec => []NeverBothWait
<1>1. TInv => NeverBothWait
  BY DEF TInv, TurnsKept, NeverBothWait, Served, Replying
<1> QED BY InitTurns, NextTurns, <1>1, PTL DEF Spec
-----------------------------------------------------------------------------
(* While reads return whole frames, a connection holds at most one frame,  *)
(* and it is clear whose turn it is.                                       *)
Queued(c)   == \E i \in DOMAIN backlog : backlog[i] = c
Accepted(c) == cur = c \/ Queued(c)
Whole(c)    == c \notin short /\ c \notin killed

Connections ==
  /\ \A i, j \in DOMAIN backlog : backlog[i] = backlog[j] => i = j
  /\ \A c \in Clients : Queued(c) => cur # c
  /\ \A c \in Clients : Accepted(c) => sEnd[c] = "open" /\ cpc[c] # "start"
  /\ \A c \in Clients : cpc[c] = "dead" /\ c \notin killed => ~Accepted(c)
  /\ \A c \in Clients : cpc[c] = "start" => sEnd[c] = "open"
  /\ \A c \in killed : cpc[c] = "dead"

AtStart(c)  == cpc[c] = "start" => lines[c] = 0 /\ cEnd[c] = "open" /\ up[c] = <<>> /\ down[c] = <<>>
AtPrompt(c) == cpc[c] = "prompt" =>
  /\ cEnd[c] = "open" /\ down[c] = <<>>
  /\ sEnd[c] = "open" => up[c] = <<>> /\ ~Replying(c)
  /\ lines[c] > 0 => shown[c] = lines[c] \/ (shown[c] = 0 /\ sEnd[c] # "open")
AtRead(c) == cpc[c] = "read" =>
  /\ cEnd[c] = "open" /\ Len(down[c]) <= Units
  /\ down[c] # <<>> => down[c][1].line = lines[c]
  /\ sEnd[c] = "open" =>
       \/ up[c] = Frame(lines[c], FALSE) /\ down[c] = <<>> /\ ~Replying(c)
       \/ up[c] = <<>> /\ down[c] = <<>> /\ Replying(c) /\ heard = lines[c]
       \/ up[c] = <<>> /\ down[c] = Frame(lines[c], FALSE) /\ ~Replying(c)
HasLeft(c) == cpc[c] = "left" /\ sEnd[c] = "open" =>
  up[c] = Frame(lines[c], TRUE) /\ cEnd[c] = "fin" /\ ~Replying(c)

InStep(c) == AtStart(c) /\ AtPrompt(c) /\ AtRead(c) /\ HasLeft(c)

SInv == TInv /\ Connections /\ ServerSurvives /\ \A c \in Clients : Whole(c) => InStep(c)

\* Nobody is connected at first.
LEMMA InitInStep == Init => SInv
  BY InitTurns, NobodyAssumption DEF Init, SInv, Connections, Queued, Accepted, ServerSurvives,
     InStep, AtStart, AtPrompt, AtRead, HasLeft

(* A frame that is read whole is an "exit" when it was sent as one. *)
LEMMA ExitSeen ==
  ASSUME NEW n \in Nat, NEW e \in BOOLEAN
  PROVE  IsExit(Frame(n, e), Units) <=> e
<1>1. Units >= Word
  BY SizeAssumption
<1>2. Frame(n, e)[1] = [line |-> n, part |-> 1, exit |-> e]
  BY FrameFacts
<1>3. Frame(n, e)[1].part = 1 /\ Frame(n, e)[1].exit = e
  BY <1>2
<1> QED BY <1>1, <1>3 DEF IsExit

(* What an action of client c, or of the server for c, leaves of another.  *)
LEMMA OthersInStep ==
  ASSUME SInv, NEW c \in Clients, NEW d \in Clients, d # c, Whole(d)',
         short \subseteq short', killed \subseteq killed',
         cpc'[d] = cpc[d], lines'[d] = lines[d], shown'[d] = shown[d],
         up'[d] = up[d], down'[d] = down[d], sEnd'[d] = sEnd[d], cEnd'[d] = cEnd[d],
         \/ UNCHANGED <<spc, cur, heard>>
         \/ ~Replying(d) /\ ~Replying(d)'
  PROVE  InStep(d)'
<1>1. InStep(d)
  BY DEF SInv, Whole
<1>2. Replying(d)' = Replying(d) /\ (Replying(d) => heard' = heard)
  BY DEF Replying
<1> QED BY <1>1, <1>2 DEF InStep, AtStart, AtPrompt, AtRead, HasLeft

(* The end of the server. *)
LEMMA EndsInStep ==
  ASSUME SInv, NEW how \in {"dead", "stopped"}, ServerEnds(how), ServerSurvives' PROVE SInv'
<1>1. TInv' /\ TypeOK
  BY EndsTurns DEF SInv, TInv
<1>2. /\ backlog' = <<>> /\ cur' = Nobody
      /\ UNCHANGED <<heard, cpc, lines, shown, cEnd, short, killed>>
  BY DEF ServerEnds
<1>3. Connections'
  <2>1. \A c \in Clients : cpc[c] = "start" => ~Accepted(c) /\ sEnd[c] = "open"
    BY DEF SInv, Connections
  <2>2. \A c \in Clients : cpc[c] = "start" => sEnd'[c] = "open"
    BY <1>1, <2>1, EndsFacts DEF Accepted, Queued
  <2> QED BY <1>2, <2>2, NobodyAssumption DEF SInv, Connections, Accepted, Queued
<1>4. ASSUME NEW d \in Clients, Whole(d)' PROVE InStep(d)'
  <2>1. InStep(d) /\ ~Replying(d)'
    BY <1>2, <1>4, NobodyAssumption DEF SInv, Whole, Replying
  <2>2. CASE Accepted(d)
    <3>1. sEnd[d] = "open" /\ sEnd'[d] # "open" /\ cpc[d] # "start"
      BY <1>1, <2>2, EndsFacts DEF SInv, Connections, Accepted, Queued
    <3>2. down[d] \in Seq(Part) /\ down'[d] \in Seq(Part)
      BY <1>1 DEF TInv, TypeOK
    <3>3. /\ Len(down'[d]) <= Len(down[d])
          /\ down'[d] # <<>> => down[d] # <<>> /\ down'[d][1] = down[d][1]
      <4>1. CASE down'[d] = down[d]
        BY <3>2, <4>1, LenProperties
      <4>2. CASE \E end \in EndStates : down'[d] \in Kept(down[d], end)
        BY <3>2, <4>2, KeptFacts
      <4> QED BY <1>1, <4>1, <4>2, EndsFacts
    <3>4. Len(down[d]) \in Nat /\ Len(down'[d]) \in Nat /\ Units \in Nat
      BY <3>2, LenProperties, SizeAssumption
    <3>5. AtPrompt(d)' /\ AtStart(d)' /\ HasLeft(d)'
      BY <1>2, <2>1, <3>1, <3>3 DEF InStep, AtPrompt, AtStart, HasLeft
    <3>6. AtRead(d)'
      <4> SUFFICES ASSUME cpc[d] = "read"
                   PROVE  cEnd'[d] = "open" /\ Len(down'[d]) <= Units /\ (down'[d] # <<>> => down'[d][1].line = lines'[d])
        BY <1>2, <3>1 DEF AtRead
      <4>1. cEnd[d] = "open" /\ Len(down[d]) <= Units /\ (down[d] # <<>> => down[d][1].line = lines[d])
        BY <2>1 DEF InStep, AtRead
      <4>2. Len(down'[d]) <= Units
        BY <3>3, <3>4, <4>1
      <4> QED BY <1>2, <3>3, <4>1, <4>2
    <3> QED BY <3>5, <3>6 DEF InStep
  <2>3. CASE ~Accepted(d)
    <3>1. d # cur /\ ~Replying(d)
      BY <2>3 DEF Accepted, Replying
    <3>2. sEnd'[d] = sEnd[d] /\ up'[d] = up[d]
      BY <1>1, <2>3, EndsFacts DEF Accepted, Queued
    <3>3. down'[d] = down[d]
      BY <1>1, <3>1 DEF ServerEnds, TypeOK
    <3> QED BY <1>2, <2>1, <3>1, <3>2, <3>3 DEF InStep, AtStart, AtPrompt, AtRead, HasLeft
  <2> QED BY <2>2, <2>3
<1> QED BY <1>1, <1>3, <1>4 DEF SInv

(* A connection whose server end is open has its other end open too, or    *)
(* the client has left behind a frame that is not read yet.                *)
LEMMA NoSurprise ==
  ASSUME SInv, NEW c \in Clients, cur = c, Whole(c), up[c] = <<>> \/ Replying(c) PROVE cEnd[c] = "open"
<1>1. sEnd[c] = "open" /\ cpc[c] \notin {"start", "dead"} /\ InStep(c) /\ lines[c] \in Nat
  BY DEF SInv, Connections, Accepted, Whole, TInv, TypeOK
<1>2. Frame(lines[c], TRUE) # <<>>
  BY <1>1, FrameFacts
<1>3. cpc[c] \in ClientStates
  BY DEF SInv, TInv, TypeOK
<1> QED BY <1>1, <1>2, <1>3 DEF InStep, AtPrompt, AtRead, HasLeft, ClientStates

(* The steps of the server that change its connection. *)
LEMMA ServerInStep == ASSUME SInv, NEW c \in Clients, SNext(c) PROVE SInv'
<1>1. TInv /\ TInv' /\ TypeOK /\ TypeOK'
  BY ServerTurns DEF SInv, TInv
<1>2. up[c] \in Seq(Part) /\ down[c] \in Seq(Part) /\ lines[c] \in Nat /\ heard \in Nat /\ cpc[c] \in ClientStates
  BY <1>1 DEF TypeOK
<1>3. ASSUME NEW k \in 1 .. Units, SRead(c, k) PROVE SInv'
  <2>1. /\ k \in ReadSizes(up[c]) /\ spc = "read" /\ cur = c /\ Accepted(c) /\ spc' # "dead"
        /\ UNCHANGED <<backlog, cpc, lines, shown, cEnd, killed>>
        /\ short \subseteq short' /\ (c \notin short' => c \notin short /\ ~(k < Units))
    BY <1>3 DEF SRead, Accepted, Shortened, NextClient
  <2>2. Rest(up[c], k) \in Seq(Part) /\ up[c] # <<>>
    BY <1>2, <2>1, ReadFacts
  <2>3. \/ sEnd' = sEnd /\ cur' = cur /\ down' = down /\ ~IsExit(up[c], k) /\ spc' = "reply" /\ heard' = up[c][1].line
           /\ up' = [up EXCEPT ![c] = Rest(@, k)]
        \/ SClose(c, Rest(up[c], k), down[c]) /\ NextClient /\ IsExit(up[c], k)
    BY <1>3 DEF SRead
  <2>4. \A d \in Clients \ {c} : sEnd'[d] = sEnd[d] /\ up'[d] = up[d] /\ down'[d] = down[d]
    BY <1>1, <1>2, <2>2, <2>3, SCloseFacts DEF TypeOK
  <2>5. Connections'
    <3>1. \A d \in Clients : Accepted(d)' => Accepted(d) /\ sEnd'[d] = sEnd[d]
      BY <2>1, <2>3, <2>4, NobodyAssumption DEF Accepted, Queued, NextClient, SInv, Connections
    <3>2. \A d \in Clients : Queued(d)' => cur' # d
      BY <2>1, <2>3, NobodyAssumption DEF Queued, NextClient, SInv, Connections
    <3>3. \A d \in Clients : cpc[d] = "start" => sEnd'[d] = sEnd[d]
      BY <2>1, <2>4 DEF SInv, Connections
    <3> QED BY <2>1, <3>1, <3>2, <3>3 DEF SInv, Connections
  <2>6. ServerSurvives'
    BY <2>1 DEF ServerSurvives
  <2>7. ASSUME NEW d \in Clients \ {c}, Whole(d)' PROVE InStep(d)'
    BY <2>1, <2>3, <2>4, <2>7, OthersInStep DEF Replying, NextClient
  <2>8. ASSUME Whole(c)' PROVE InStep(c)'
    <3>1. Whole(c) /\ InStep(c) /\ k = Units /\ sEnd[c] = "open" /\ cpc[c] \notin {"start", "dead"} /\ ~Replying(c)
      BY <2>1, <2>8, SizeAssumption DEF SInv, Whole, Connections, Accepted, Replying
    <3>2. PICK e \in BOOLEAN : up[c] = Frame(lines[c], e) /\ (cpc[c] = "left" <=> e) /\ (~e => cpc[c] = "read" /\ down[c] = <<>>)
      BY <1>2, <2>2, <3>1 DEF InStep, AtPrompt, AtRead, HasLeft, ClientStates
    <3>3. Len(up[c]) = Units /\ up[c][1].line = lines[c] /\ (IsExit(up[c], k) <=> e)
      <4>1. Frame(lines[c], e)[1] = [line |-> lines[c], part |-> 1, exit |-> e] /\ Len(Frame(lines[c], e)) = Units
        BY <1>2, FrameFacts
      <4>2. IsExit(Frame(lines[c], e), Units) <=> e
        BY <1>2, ExitSeen
      <4> QED BY <3>1, <3>2, <4>1, <4>2
    <3>4. Rest(up[c], k) = <<>>
      BY <1>2, <2>1, <3>1, <3>3, ReadFacts, SizeAssumption
    <3>5. CASE e
      <4>1. sEnd'[c] # "open" /\ cpc'[c] = "left"
        BY <1>1, <1>2, <2>1, <2>2, <2>3, <3>2, <3>3, <3>5, SCloseFacts
      <4> QED BY <4>1 DEF InStep, AtStart, AtPrompt, AtRead, HasLeft
    <3>6. CASE ~e
      <4>1. /\ sEnd' = sEnd /\ cur' = cur /\ down' = down /\ spc' = "reply" /\ heard' = lines[c]
            /\ up'[c] = <<>> /\ cpc'[c] = "read" /\ down[c] = <<>>
        BY <1>1, <2>1, <2>3, <3>2, <3>3, <3>4, <3>6 DEF TypeOK
      <4>2. Replying(c)' /\ AtRead(c)'
        BY <2>1, <3>1, <4>1 DEF InStep, AtRead, Replying
      <4> QED BY <4>1, <4>2 DEF InStep, AtStart, AtPrompt, HasLeft
    <3> QED BY <3>5, <3>6
  <2> QED BY <1>1, <2>5, <2>6, <2>7, <2>8 DEF SInv
<1>4. ASSUME SReadEof(c) PROVE SInv'
  <2>1. /\ spc = "read" /\ cur = c /\ up[c] = <<>> /\ cEnd[c] = "fin" /\ spc' = "reply"
        /\ UNCHANGED <<cur, backlog, sEnd, cEnd, cpc, lines, shown, up, down, short, killed>>
    BY <1>4 DEF SReadEof, ends, streams
  <2>2. ~Whole(c)
    BY <2>1, NoSurprise
  <2>3. Connections' /\ ServerSurvives'
    BY <2>1 DEF SInv, Connections, Accepted, Queued, ServerSurvives
  <2>4. ASSUME NEW d \in Clients, Whole(d)' PROVE InStep(d)'
    <3>1. d # c
      BY <2>1, <2>2, <2>4 DEF Whole
    <3> QED BY <2>1, <2>4, <3>1, OthersInStep DEF Replying
  <2> QED BY <1>1, <2>3, <2>4 DEF SInv
<1>5. ASSUME NEW e \in BOOLEAN, SReply(c, e) PROVE SInv'
  <2> DEFINE out == IF cEnd[c] = "open" THEN down[c] \o Frame(heard, e) ELSE down[c]
  <2>1. /\ spc = "reply" /\ cur = c /\ Accepted(c) /\ Replying(c) /\ spc' # "dead"
        /\ UNCHANGED <<backlog, heard, cpc, lines, shown, cEnd, short, killed>>
    BY <1>5 DEF SReply, Accepted, Replying, NextClient
  <2>2. out \in Seq(Part)
    BY <1>2, WriteFacts
  <2>3. \/ ~e /\ down' = [down EXCEPT ![c] = out] /\ spc' = "read" /\ UNCHANGED <<cur, sEnd, up>>
        \/ e /\ SClose(c, up[c], out) /\ NextClient
    BY <1>5 DEF SReply
  <2>4. ASSUME Whole(c)
        PROVE  /\ cpc[c] = "read" /\ cEnd[c] = "open" /\ sEnd[c] = "open" /\ up[c] = <<>> /\ down[c] = <<>>
               /\ heard = lines[c] /\ out = Frame(lines[c], e) /\ Len(out) = Units /\ out[1].line = lines[c] /\ out # <<>>
    <3>1. /\ InStep(c) /\ sEnd[c] = "open" /\ cpc[c] \notin {"start", "dead"} /\ cEnd[c] = "open"
      BY <2>1, <2>4, NoSurprise DEF SInv, Connections, Whole
    <3>2. cpc[c] = "read" /\ up[c] = <<>> /\ down[c] = <<>> /\ heard = lines[c]
      BY <1>2, <2>1, <3>1 DEF InStep, AtPrompt, AtRead, HasLeft, ClientStates
    <3>3. out = Frame(lines[c], e)
      BY <1>2, <3>1, <3>2, WriteFacts
    <3>4. /\ Frame(lines[c], e)[1] = [line |-> lines[c], part |-> 1, exit |-> e]
          /\ Len(Frame(lines[c], e)) = Units /\ Frame(lines[c], e) # <<>>
      BY <1>2, FrameFacts
    <3> HIDE DEF out
    <3> QED BY <3>1, <3>2, <3>3, <3>4
  <2> HIDE DEF out
  <2>5. \A d \in Clients \ {c} : sEnd'[d] = sEnd[d] /\ up'[d] = up[d] /\ down'[d] = down[d]
    BY <1>1, <1>2, <2>2, <2>3, SCloseFacts DEF TypeOK
  <2>6. Connections'
    <3>1. \A d \in Clients : Accepted(d)' => Accepted(d) /\ sEnd'[d] = sEnd[d]
      BY <2>1, <2>3, <2>5, NobodyAssumption DEF Accepted, Queued, NextClient, SInv, Connections
    <3>2. \A d \in Clients : Queued(d)' => cur' # d
      BY <2>1, <2>3, NobodyAssumption DEF Queued, NextClient, SInv, Connections
    <3>3. \A d \in Clients : cpc[d] = "start" => sEnd'[d] = sEnd[d]
      BY <2>1, <2>5 DEF SInv, Connections
    <3> QED BY <2>1, <3>1, <3>2, <3>3 DEF SInv, Connections
  <2>7. ServerSurvives'
    BY <2>1 DEF ServerSurvives
  <2>8. ASSUME NEW d \in Clients \ {c}, Whole(d)' PROVE InStep(d)'
    BY <2>1, <2>3, <2>5, <2>8, OthersInStep DEF Replying, NextClient
  <2>9. ASSUME Whole(c)' PROVE InStep(c)'
    <3>1. Whole(c) /\ Units \in Nat
      BY <2>1, <2>9, SizeAssumption DEF Whole
    <3>2. CASE e
      <4>1. SClose(c, up[c], out)
        BY <2>3, <3>2
      <4>2. sEnd'[c] # "open" /\ down'[c] \in Kept(out, "fin")
        BY <1>1, <1>2, <2>2, <2>4, <3>1, <4>1, SCloseFacts, ClosedFacts
      <4>3. down'[c] = out
        BY <2>2, <4>2, KeptFacts DEF EndStates
      <4>4. AtRead(c)'
        <5>1. cEnd'[c] = "open" /\ Len(down'[c]) <= Units /\ down'[c][1].line = lines'[c]
          BY <2>1, <2>4, <3>1, <4>3
        <5> QED BY <4>2, <5>1, Zenon DEF AtRead
      <4> QED BY <2>1, <2>4, <3>1, <4>4 DEF InStep, AtStart, AtPrompt, HasLeft
    <3>3. CASE ~e
      <4>1. down'[c] = Frame(lines[c], FALSE) /\ up'[c] = <<>> /\ sEnd'[c] = sEnd[c] /\ ~Replying(c)' /\ down'[c] = out
        BY <1>1, <2>3, <2>4, <3>1, <3>3 DEF TypeOK, Replying
      <4>2. AtRead(c)'
        <5>0. down'[c] = out
          BY <4>1
        <5>1. cEnd'[c] = "open" /\ Len(down'[c]) <= Units /\ down'[c][1].line = lines'[c]
          BY <2>1, <2>4, <3>1, <5>0
        <5>2. up'[c] = <<>> /\ down'[c] = Frame(lines'[c], FALSE)
          BY <2>1, <4>1
        <5> QED BY <4>1, <5>1, <5>2, Zenon DEF AtRead
      <4> QED BY <2>1, <2>4, <3>1, <4>2 DEF InStep, AtStart, AtPrompt, HasLeft
    <3> QED BY <3>2, <3>3
  <2> QED BY <1>1, <2>6, <2>7, <2>8, <2>9 DEF SInv
<1>6. ASSUME SReset(c) \/ SSigpipe(c) PROVE SInv'
  <2>1. ServerEnds("dead") /\ cur = c /\ cEnd[c] # "open" /\ (up[c] = <<>> \/ Replying(c)) /\ UNCHANGED <<short, killed>>
    BY <1>6 DEF SReset, SSigpipe, SWriteFails, Replying, ServerEnds
  <2>2. ~Whole(c)
    BY <2>1, NoSurprise
  <2>3. ServerSurvives'
    BY <2>1, <2>2 DEF ServerSurvives, Whole
  <2> QED BY <2>1, <2>3, EndsInStep
<1> QED BY <1>3, <1>4, <1>5, <1>6 DEF SNext

(* The steps of a client. *)
LEMMA ClientInStep == ASSUME SInv, NEW c \in Clients, CSteps(c) \/ CKill(c) PROVE SInv'
<1>1. TInv /\ TInv' /\ TypeOK /\ TypeOK'
  BY ClientTurns DEF SInv, TInv
<1>2. up[c] \in Seq(Part) /\ down[c] \in Seq(Part) /\ lines[c] \in Nat /\ cpc[c] \in ClientStates /\ Units \in Nat \ {0}
  BY <1>1, SizeAssumption DEF TypeOK
<1>3. ASSUME CConnect(c) PROVE SInv'
  <2> DEFINE n == Len(backlog) + 1
  <2>1. /\ cpc[c] = "start" /\ cpc' = [cpc EXCEPT ![c] = "prompt"] /\ backlog' = Append(backlog, c)
        /\ UNCHANGED <<spc, cur, heard, sEnd, cEnd, lines, shown, up, down, short, killed>>
    BY <1>3 DEF CConnect, ends, streams
  <2>2. /\ backlog \in Seq(Clients) /\ Len(backlog) \in Nat /\ DOMAIN backlog = 1 .. Len(backlog)
        /\ DOMAIN backlog' = 1 .. n /\ backlog'[n] = c
        /\ \A i \in 1 .. Len(backlog) : backlog'[i] = backlog[i]
    BY <1>1, <2>1, LenProperties, AppendProperties DEF TypeOK
  <2>3. \A d \in Clients : Queued(d)' <=> d = c \/ Queued(d)
    BY <2>2 DEF Queued
  <2>4. ~Accepted(c) /\ sEnd[c] \in EndStates
    BY <1>1, <2>1 DEF SInv, Connections, TypeOK
  <2>5. \A i, j \in DOMAIN backlog' : backlog'[i] = backlog'[j] => i = j
    BY <2>2, <2>4 DEF SInv, Connections, Accepted, Queued
  <2>6. CASE sEnd[c] = "open"
    <3>1. Connections'
      BY <1>1, <2>1, <2>3, <2>4, <2>5, <2>6 DEF SInv, Connections, Accepted, TypeOK
    <3>2. ServerSurvives'
      BY <2>1 DEF SInv, ServerSurvives
    <3>3. ASSUME NEW d \in Clients \ {c}, Whole(d)' PROVE InStep(d)'
      BY <1>1, <2>1, <3>3, OthersInStep DEF TypeOK
    <3>4. ASSUME Whole(c)' PROVE InStep(c)'
      <4>1. InStep(c) /\ cpc'[c] = "prompt" /\ ~Replying(c)'
        BY <1>1, <2>1, <2>4, <3>4 DEF SInv, Whole, TypeOK, Accepted, Replying
      <4>2. /\ lines'[c] = 0 /\ ~(lines'[c] > 0) /\ cEnd'[c] = "open" /\ up'[c] = <<>> /\ down'[c] = <<>>
        BY <2>1, <4>1 DEF InStep, AtStart
      <4>3. AtPrompt(c)'
        BY <4>1, <4>2 DEF AtPrompt
      <4> QED BY <4>1, <4>3 DEF InStep, AtStart, AtRead, HasLeft
    <3> QED BY <1>1, <3>1, <3>2, <3>3, <3>4 DEF SInv
  <2> QED BY <2>1, <2>6 DEF SInv, Connections
<1>4. ASSUME CRefused(c) PROVE SInv'
  <2>1. /\ cpc[c] = "start" /\ cpc' = [cpc EXCEPT ![c] = "dead"]
        /\ UNCHANGED <<spc, cur, backlog, heard, sEnd, cEnd, lines, shown, up, down, short, killed>>
    BY <1>4 DEF CRefused, server, ends, streams
  <2>2. ~Accepted(c)
    BY <2>1 DEF SInv, Connections
  <2>3. Connections' /\ ServerSurvives'
    BY <1>1, <2>1, <2>2 DEF SInv, Connections, Accepted, Queued, ServerSurvives, TypeOK
  <2>4. ASSUME NEW d \in Clients \ {c}, Whole(d)' PROVE InStep(d)'
    BY <1>1, <2>1, <2>4, OthersInStep DEF TypeOK
  <2>5. InStep(c)'
    BY <1>1, <2>1 DEF InStep, AtStart, AtPrompt, AtRead, HasLeft, TypeOK
  <2> QED BY <1>1, <2>3, <2>4, <2>5 DEF SInv
<1>5. ASSUME NEW e \in BOOLEAN, CSend(c, e) PROVE SInv'
  <2> DEFINE n == lines[c] + 1
             out == IF sEnd[c] = "open" THEN up[c] \o Frame(n, e) ELSE up[c]
  <2>1. /\ cpc[c] = "prompt" /\ cpc' = [cpc EXCEPT ![c] = IF e THEN "left" ELSE "read"]
        /\ lines' = [lines EXCEPT ![c] = n] /\ lines'[c] = n /\ n \in Nat
        /\ UNCHANGED <<spc, cur, backlog, heard, sEnd, shown, short, killed>>
    BY <1>1, <1>5 DEF CSend, server, TypeOK
  <2>2. out \in Seq(Part)
    BY <1>2, <2>1, WriteFacts
  <2>3. \/ e /\ CClose(c, down[c], out)
        \/ ~e /\ up' = [up EXCEPT ![c] = out] /\ UNCHANGED <<cEnd, down>>
    BY <1>5, <2>1 DEF CSend
  <2>4. sEnd[c] = "open" /\ up[c] = <<>> => out = Frame(n, e)
    BY <1>2, <2>1, WriteFacts
  <2>5. Frame(n, e) # <<>>
    BY <2>1, FrameFacts
  <2> HIDE DEF out, n
  <2>6. \A d \in Clients \ {c} : cEnd'[d] = cEnd[d] /\ up'[d] = up[d] /\ down'[d] = down[d]
    BY <1>1, <1>2, <2>2, <2>3, CCloseFacts DEF TypeOK
  <2>7. Connections' /\ ServerSurvives'
    BY <1>1, <2>1 DEF SInv, Connections, Accepted, Queued, ServerSurvives, TypeOK
  <2>8. ASSUME NEW d \in Clients \ {c}, Whole(d)' PROVE InStep(d)'
    BY <1>1, <2>1, <2>6, <2>8, OthersInStep DEF TypeOK
  <2>9. ASSUME Whole(c)' PROVE InStep(c)'
    <3>1. /\ cEnd[c] = "open" /\ down[c] = <<>>
          /\ sEnd[c] = "open" => up[c] = <<>> /\ ~Replying(c)
      BY <2>1, <2>9 DEF SInv, Whole, InStep, AtPrompt
    <3>2. CASE e
      <4>1. cpc'[c] = "left" /\ cEnd'[c] = "fin" /\ up'[c] \in Kept(out, "fin")
        BY <1>1, <1>2, <2>1, <2>2, <2>3, <3>1, <3>2, CCloseFacts, ClosedFacts DEF TypeOK
      <4>2. up'[c] = out
        BY <2>2, <4>1, KeptFacts DEF EndStates
      <4>3. HasLeft(c)'
        BY <2>1, <2>4, <3>1, <3>2, <4>1, <4>2 DEF HasLeft, Replying
      <4> QED BY <4>1, <4>3 DEF InStep, AtStart, AtPrompt, AtRead
    <3>3. CASE ~e
      <4>1. /\ cpc'[c] = "read" /\ cEnd'[c] = "open" /\ up'[c] = out /\ down'[c] = <<>>
            /\ sEnd'[c] = sEnd[c] /\ Replying(c)' = Replying(c)
        BY <1>1, <2>1, <2>3, <3>1, <3>3 DEF TypeOK, Replying
      <4>2. Len(down'[c]) <= Units
        BY <1>2, <4>1, EmptySeq
      <4>3. sEnd'[c] = "open" => up'[c] = Frame(lines'[c], FALSE) /\ ~Replying(c)'
        BY <2>1, <2>4, <3>1, <3>3, <4>1
      <4>4. AtRead(c)'
        BY <4>1, <4>2, <4>3, Zenon DEF AtRead
      <4> QED BY <4>1, <4>4 DEF InStep, AtStart, AtPrompt, HasLeft
    <3> QED BY <3>2, <3>3
  <2> QED BY <1>1, <2>7, <2>8, <2>9 DEF SInv
<1>6. ASSUME NEW k \in 1 .. Units, CRead(c, k) PROVE SInv'
  <2>1. /\ cpc[c] = "read" /\ k \in ReadSizes(down[c])
        /\ UNCHANGED <<spc, cur, backlog, heard, sEnd, lines, killed>>
        /\ short \subseteq short' /\ (c \notin short' => c \notin short /\ ~(k < Units))
    BY <1>6 DEF CRead, Shortened, server
  <2>2. Rest(down[c], k) \in Seq(Part) /\ down[c] # <<>>
    BY <1>2, <2>1, ReadFacts
  <2>3. \/ /\ ~IsExit(down[c], k) /\ down' = [down EXCEPT ![c] = Rest(@, k)] /\ cpc' = [cpc EXCEPT ![c] = "prompt"]
           /\ shown' = [shown EXCEPT ![c] = down[c][1].line] /\ UNCHANGED <<cEnd, up>>
        \/ /\ IsExit(down[c], k) /\ CClose(c, Rest(down[c], k), up[c])
           /\ cpc' = [cpc EXCEPT ![c] = "left"] /\ UNCHANGED shown
    BY <1>6 DEF CRead
  <2>4. \A d \in Clients \ {c} : /\ cEnd'[d] = cEnd[d] /\ up'[d] = up[d] /\ down'[d] = down[d]
                                 /\ cpc'[d] = cpc[d] /\ shown'[d] = shown[d]
    BY <1>1, <1>2, <2>2, <2>3, CCloseFacts DEF TypeOK
  <2>5. cpc'[c] \in {"prompt", "left"}
    BY <1>1, <2>3 DEF TypeOK
  <2>6. Connections'
    <3>1. \A d \in Clients : (Queued(d)' <=> Queued(d)) /\ (Accepted(d)' <=> Accepted(d))
      BY <2>1 DEF Accepted, Queued
    <3>2. \A d \in Clients : (cpc'[d] = "start" <=> cpc[d] = "start") /\ (cpc'[d] = "dead" <=> cpc[d] = "dead")
      BY <2>1, <2>4, <2>5
    <3>3. killed \subseteq Clients
      BY <1>1 DEF TypeOK
    <3> QED BY <2>1, <3>1, <3>2, <3>3 DEF SInv, Connections
  <2>7. ServerSurvives'
    BY <2>1 DEF SInv, ServerSurvives
  <2>8. ASSUME NEW d \in Clients \ {c}, Whole(d)' PROVE InStep(d)'
    BY <2>1, <2>4, <2>8, OthersInStep
  <2>9. ASSUME Whole(c)' PROVE InStep(c)'
    <3>1. k = Units /\ InStep(c)
      BY <1>2, <2>1, <2>9 DEF SInv, Whole
    <3>2. /\ cEnd[c] = "open" /\ Len(down[c]) <= Units /\ down[c][1].line = lines[c]
          /\ sEnd[c] = "open" => up[c] = <<>> /\ down[c] = Frame(lines[c], FALSE) /\ ~Replying(c)
      BY <2>1, <2>2, <3>1, Zenon DEF InStep, AtRead
    <3>3. Rest(down[c], k) = <<>>
      BY <1>2, <2>1, <3>1, <3>2, ReadFacts
    <3>4. sEnd[c] = "open" => ~IsExit(down[c], k)
      BY <1>2, <3>1, <3>2, ExitSeen
    <3>5. CASE IsExit(down[c], k)
      BY <1>1, <2>1, <2>3, <3>4, <3>5 DEF InStep, AtStart, AtPrompt, AtRead, HasLeft, TypeOK
    <3>6. CASE ~IsExit(down[c], k)
      <4>1. cpc'[c] = "prompt" /\ down'[c] = <<>> /\ shown'[c] = lines[c] /\ cEnd' = cEnd /\ up' = up
        BY <1>1, <2>3, <3>2, <3>3, <3>6 DEF TypeOK
      <4> QED BY <2>1, <3>2, <4>1 DEF InStep, AtStart, AtPrompt, AtRead, HasLeft, Replying
    <3> QED BY <3>5, <3>6
  <2> QED BY <1>1, <2>6, <2>7, <2>8, <2>9 DEF SInv
<1>7. ASSUME CReadEof(c) PROVE SInv'
  <2>1. /\ cpc[c] = "read" /\ down[c] = <<>> /\ sEnd[c] = "fin"
        /\ cpc' = [cpc EXCEPT ![c] = "prompt"] /\ shown' = [shown EXCEPT ![c] = 0]
        /\ UNCHANGED <<spc, cur, backlog, heard, sEnd, cEnd, lines, up, down, short, killed>>
    BY <1>7 DEF CReadEof, server, ends, streams
  <2>2. Connections' /\ ServerSurvives'
    BY <1>1, <2>1 DEF SInv, Connections, Accepted, Queued, ServerSurvives, TypeOK
  <2>3. ASSUME NEW d \in Clients \ {c}, Whole(d)' PROVE InStep(d)'
    BY <1>1, <2>1, <2>3, OthersInStep DEF TypeOK
  <2>4. ASSUME Whole(c)' PROVE InStep(c)'
    <3>1. cEnd[c] = "open"
      BY <2>1, <2>4 DEF SInv, Whole, InStep, AtRead
    <3> QED BY <1>1, <2>1, <3>1 DEF InStep, AtStart, AtPrompt, AtRead, HasLeft, TypeOK
  <2> QED BY <1>1, <2>2, <2>3, <2>4 DEF SInv
<1>8. ASSUME CFails(c) \/ CKill(c) PROVE SInv'
  <2>1. /\ cpc[c] \in {"prompt", "read"} /\ cpc' = [cpc EXCEPT ![c] = "dead"] /\ CClose(c, down[c], up[c])
        /\ UNCHANGED <<spc, cur, backlog, heard, sEnd, lines, shown, short>>
        /\ killed \subseteq killed' /\ killed' \subseteq killed \cup {c} /\ (c \in killed' \/ sEnd[c] # "open")
    BY <1>8 DEF CFails, CKill, CWriteFails, server
  <2>2. \A d \in Clients \ {c} : cEnd'[d] = cEnd[d] /\ up'[d] = up[d] /\ down'[d] = down[d] /\ cpc'[d] = cpc[d]
    BY <1>1, <1>2, <2>1, CCloseFacts DEF TypeOK
  <2>3. cpc'[c] = "dead"
    BY <1>1, <2>1 DEF TypeOK
  <2>4. Connections'
    <3>1. \A d \in Clients : (Queued(d)' <=> Queued(d)) /\ (Accepted(d)' <=> Accepted(d))
      BY <2>1 DEF Accepted, Queued
    <3>2. c \in killed' \/ ~Accepted(c)
      BY <2>1 DEF SInv, Connections
    <3>3. killed \subseteq Clients
      BY <1>1 DEF TypeOK
    <3>4. \A d \in Clients \ {c} : cpc'[d] = cpc[d]
      BY <2>2
    <3>5. \A d \in killed' : cpc'[d] = "dead"
      BY <2>1, <2>3, <3>3, <3>4 DEF SInv, Connections
    <3>6. \A d \in Clients : cpc'[d] = "dead" /\ d \notin killed' => ~Accepted(d)'
      BY <2>1, <3>1, <3>2, <3>4 DEF SInv, Connections
    <3>7. \A d \in Clients : Accepted(d)' => sEnd'[d] = "open" /\ cpc'[d] # "start"
      BY <2>1, <2>3, <3>1, <3>4 DEF SInv, Connections
    <3>8. \A d \in Clients : cpc'[d] = "start" => sEnd'[d] = "open"
      BY <2>1, <2>3, <3>4 DEF SInv, Connections
    <3> QED BY <2>1, <3>1, <3>5, <3>6, <3>7, <3>8 DEF SInv, Connections
  <2>5. ServerSurvives'
    BY <2>1 DEF SInv, ServerSurvives
  <2>6. ASSUME NEW d \in Clients \ {c}, Whole(d)' PROVE InStep(d)'
    BY <2>1, <2>2, <2>6, OthersInStep
  <2>7. InStep(c)'
    BY <2>3 DEF InStep, AtStart, AtPrompt, AtRead, HasLeft
  <2> QED BY <1>1, <2>4, <2>5, <2>6, <2>7 DEF SInv
<1> QED BY <1>3, <1>4, <1>5, <1>6, <1>7, <1>8 DEF CSteps

\* Each step keeps a whole conversation in step.
LEMMA NextInStep == SInv /\ [Next]_vars => SInv'
<1> SUFFICES ASSUME SInv, [Next]_vars PROVE SInv'
  OBVIOUS
<1>1. TInv /\ TInv'
  BY NextTurns DEF SInv
<1>2. CASE SAccept
  <2>1. /\ backlog \in Seq(Clients) /\ backlog # <<>> /\ cur' = Head(backlog) /\ backlog' = Tail(backlog) /\ spc = "accept"
        /\ spc' = "read" /\ UNCHANGED <<heard, sEnd, cEnd, cpc, lines, shown, up, down, short, killed>>
    BY <1>1, <1>2 DEF SAccept, TInv, TypeOK, ends, streams
  <2>2. /\ Len(backlog) \in Nat \ {0} /\ DOMAIN backlog = 1 .. Len(backlog)
        /\ DOMAIN Tail(backlog) = 1 .. Len(backlog) - 1 /\ Head(backlog) = backlog[1]
        /\ \A i \in 1 .. Len(backlog) - 1 : Tail(backlog)[i] = backlog[i + 1]
    BY <2>1, LenProperties, HeadTailProperties
  <2>3. \A d \in Clients : (Queued(d)' => Queued(d)) /\ (cur' = d => Queued(d))
    BY <2>1, <2>2 DEF Queued
  <2>4. \A d \in Clients : Queued(d)' => cur' # d
    BY <2>1, <2>2 DEF Queued, SInv, Connections
  <2>5. \A i, j \in DOMAIN backlog' : backlog'[i] = backlog'[j] => i = j
    BY <2>1, <2>2 DEF SInv, Connections
  <2>6. Connections' /\ ServerSurvives'
    BY <2>1, <2>3, <2>4, <2>5 DEF SInv, Connections, Accepted, ServerSurvives
  <2>7. ASSUME NEW d \in Clients, Whole(d)' PROVE InStep(d)'
    <3>1. InStep(d) /\ ~Replying(d) /\ ~Replying(d)'
      BY <2>1, <2>7 DEF SInv, Whole, Replying
    <3> QED BY <2>1, <3>1 DEF InStep, AtStart, AtPrompt, AtRead, HasLeft
  <2> QED BY <1>1, <2>6, <2>7 DEF SInv
<1>3. CASE SKill
  <2>1. ServerEnds("stopped") /\ spc' = "stopped"
    BY <1>3 DEF SKill, ServerEnds
  <2>2. ServerSurvives'
    BY <2>1 DEF ServerSurvives
  <2> QED BY <2>1, <2>2, EndsInStep
<1>4. CASE UNCHANGED vars
  BY <1>1, <1>4 DEF SInv, Connections, Accepted, Queued, ServerSurvives, Whole, InStep, AtStart, AtPrompt,
     AtRead, HasLeft, Replying, vars, server
<1> QED BY <1>2, <1>3, <1>4, ServerInStep, ClientInStep DEF Next

(* Only a client ended by Ctrl-C or a frame that was cut can bring the     *)
(* server down: "exit", from either side, never does.                      *)
THEOREM ExitHarmless == Spec => []ServerSurvives
<1>1. SInv => ServerSurvives
  BY DEF SInv
<1> QED BY InitInStep, NextInStep, <1>1, PTL DEF Spec

(* The answer a client prints is the answer to its line. *)
THEOREM AnswersMatch == Spec => []AnswersInStep
<1>1. SInv => AnswersInStep
  <2> SUFFICES ASSUME SInv, NEW c \in Clients, c \notin short, cpc[c] = "prompt", lines[c] > 0
               PROVE  shown[c] = lines[c] \/ (shown[c] = 0 /\ sEnd[c] # "open")
    BY DEF AnswersInStep
  <2>1. c \notin killed
    BY DEF SInv, Connections
  <2> QED BY <2>1 DEF SInv, Whole, InStep, AtPrompt
<1> QED BY InitInStep, NextInStep, <1>1, PTL DEF Spec
=============================================================================
