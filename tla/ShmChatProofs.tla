---------------------------- MODULE ShmChatProofs ----------------------------
(***************************************************************************)
(* Theorems about the shared-memory chat, for any number of clients, lines *)
(* and restarts of the server.                                             *)
(***************************************************************************)
EXTENDS ShmChatProps, FiniteSetTheorems, TLAPS

(* The segments made so far are numbered from 1, and a program that has    *)
(* mapped one has it.                                                      *)
Mapped ==
  /\ \E k \in Nat : DOMAIN text = 1..k
  /\ spc # "out" => sseg \in DOMAIN text
  /\ \A c \in Clients :
        cpc[c] \in {"mapped", "writing", "loop", "print"} => cseg[c] \in DOMAIN text

(* A client whose whole pid is in a segment has that segment mapped and its *)
(* handler installed, unless it has gone.                                   *)
Reads(c, s) == cpc[c] \in {"loop", "print"} /\ cseg[c] = s

Owned == \A c \in Clients : \A s \in DOMAIN text :
           text[s] = Pid(c, TRUE) => cpc[c] = "gone" \/ Reads(c, s)

Inv == TypeOK /\ Mapped

\* The texts that the two programs store are of their kinds.
LEMMA TextsTyped ==
  /\ Empty \in Texts /\ Empty.kind = "empty"
  /\ \A c \in Clients :
        /\ Pid(c, TRUE) \in Texts /\ Pid(c, TRUE).kind = "pid"
        /\ Pid(c, FALSE) \in Texts /\ Pid(c, FALSE).kind = "pid"
  /\ \A n \in 0..MaxLines :
        /\ Line(n, TRUE) \in Texts /\ Line(n, TRUE).kind = "line"
        /\ Line(n, FALSE) \in Texts /\ Line(n, FALSE).kind = "line"
  /\ \A t \in Texts : /\ t.kind \in {"empty", "pid", "line"}
                      /\ t.kind = "line" => t.of \in 0..MaxLines
<1>1. Empty \in Texts /\ Empty.kind = "empty"
  BY DEF Texts, Empty
<1>2. ASSUME NEW c \in Clients, NEW w \in BOOLEAN
      PROVE  Pid(c, w) \in Texts /\ Pid(c, w).kind = "pid"
  <2>1. \E d \in Clients, v \in BOOLEAN : Pid(c, w) = Pid(d, v)
    BY Zenon
  <2> QED BY <2>1 DEF Texts, Pid
<1>3. ASSUME NEW n \in 0..MaxLines, NEW w \in BOOLEAN
      PROVE  Line(n, w) \in Texts /\ Line(n, w).kind = "line"
  <2>1. \E k \in 0..MaxLines, v \in BOOLEAN : Line(n, w) = Line(k, v)
    BY Zenon
  <2> QED BY <2>1 DEF Texts, Line
<1>4. ASSUME NEW t \in Texts
      PROVE  /\ t.kind \in {"empty", "pid", "line"}
             /\ t.kind = "line" => t.of \in 0..MaxLines
  BY DEF Texts, Empty, Pid, Line
<1> QED BY <1>1, <1>2, <1>3, <1>4

(* Opening a segment keeps what the others hold; a new one is empty.       *)
LEMMA Opened ==
  ASSUME TypeOK, Mapped, NEW seg \in Segments, OpenSegment(seg)
  PROVE  /\ seg \in DOMAIN text' /\ DOMAIN text \subseteq DOMAIN text'
         /\ DOMAIN text' \subseteq Segments
         /\ text' \in [DOMAIN text' -> Texts]
         /\ \E k \in Nat : DOMAIN text' = 1..k
         /\ name' \in {None} \cup DOMAIN text'
         /\ \A s \in DOMAIN text : text'[s] = text[s]
         /\ \A s \in DOMAIN text' \ DOMAIN text : text'[s] = Empty
<1>1. CASE name # None
  BY <1>1 DEF OpenSegment, TypeOK, Mapped
<1>2. CASE name = None
  <2>1. PICK k \in Nat : DOMAIN text = 1..k
    BY DEF Mapped
  <2>2. Cardinality(DOMAIN text) = k
    BY <2>1, FS_Interval
  <2>3. seg = k + 1 /\ seg \notin DOMAIN text
    BY <1>2, <2>1, <2>2 DEF OpenSegment
  <2>4. /\ DOMAIN text' = DOMAIN text \cup {seg} /\ name' = seg
        /\ text' = [s \in DOMAIN text \cup {seg} |-> IF s = seg THEN Empty ELSE text[s]]
    BY <1>2 DEF OpenSegment
  <2>5. DOMAIN text' = 1..(k + 1)
    BY <2>1, <2>3, <2>4
  <2>6. text' \in [DOMAIN text' -> Texts]
    BY <2>4, TextsTyped DEF TypeOK
  <2>7. DOMAIN text' \subseteq Segments
    BY <2>4 DEF TypeOK
  <2>8. k + 1 \in Nat
    OBVIOUS
  <2>9. /\ \A s \in DOMAIN text : text'[s] = text[s]
        /\ \A s \in DOMAIN text' \ DOMAIN text : text'[s] = Empty
    BY <2>3, <2>4
  <2> QED BY <2>4, <2>5, <2>6, <2>7, <2>8, <2>9
<1> QED BY <1>1, <1>2

\* No segment exists before a program makes one.
LEMMA InvInit == Init => Inv
<1> SUFFICES ASSUME Init PROVE Inv
  OBVIOUS
<1>1. DOMAIN text = {} /\ text \in [DOMAIN text -> Texts]
  BY DEF Init
<1>2. DOMAIN text = 1..0
  BY <1>1
<1>3. Mapped
  BY <1>2 DEF Init, Mapped
<1>4. TypeOK
  BY <1>1, TextsTyped, LinesAssumption, StartsAssumption DEF Init, TypeOK
<1> QED BY <1>3, <1>4 DEF Inv

\* Each access to the segments keeps the types and the mappings.
LEMMA InvStep == Inv /\ [Next]_vars => Inv'
<1> SUFFICES ASSUME Inv, [Next]_vars PROVE Inv'
  OBVIOUS
<1> USE LinesAssumption, StartsAssumption DEF Inv, server, clients
<1>1. CASE SStart
  <2>1. PICK seg \in Segments : OpenSegment(seg) /\ sseg' = seg
    BY <1>1 DEF SStart
  <2> QED BY <1>1, <2>1, Opened DEF SStart, TypeOK, Mapped
<1>2. CASE SPoll
  BY <1>2 DEF SPoll, TypeOK, Mapped
<1>3. CASE STake
  BY <1>3 DEF STake, TypeOK, Mapped
<1>4. CASE SType
  <2>1. line' \in 0..MaxLines /\ chat' \in 0..line' /\ chat' \in 0..MaxLines
    BY <1>4 DEF SType, TypeOK
  <2>2. DOMAIN text' = DOMAIN text /\ text' \in [DOMAIN text' -> Texts]
    BY <1>4, <2>1, TextsTyped DEF SType, TypeOK
  <2> QED BY <1>4, <2>1, <2>2 DEF SType, TypeOK, Mapped
<1>5. CASE SCopied
  <2>1. chat \in 0..MaxLines
    BY DEF TypeOK
  <2>2. DOMAIN text' = DOMAIN text /\ text' \in [DOMAIN text' -> Texts]
    BY <1>5, <2>1, TextsTyped DEF SCopied, TypeOK
  <2> QED BY <1>5, <2>2 DEF SCopied, TypeOK, Mapped
<1>6. CASE SKill
  BY <1>6 DEF SKill, Signals, TypeOK, Mapped
<1>7. CASE SInt
  BY <1>7 DEF SInt, TypeOK, Mapped
<1>8. ASSUME NEW c \in Clients, CStart(c) PROVE Inv'
  BY <1>8 DEF CStart, TypeOK, Mapped
<1>9. ASSUME NEW c \in Clients, COpen(c) PROVE Inv'
  <2>1. PICK seg \in Segments : OpenSegment(seg) /\ cseg' = [cseg EXCEPT ![c] = seg]
    BY <1>9 DEF COpen
  <2> QED BY <1>9, <2>1, Opened DEF COpen, TypeOK, Mapped
<1>10. ASSUME NEW c \in Clients, CWritePid(c) PROVE Inv'
  <2>1. DOMAIN text' = DOMAIN text /\ text' \in [DOMAIN text' -> Texts]
    BY <1>10, TextsTyped DEF CWritePid, TypeOK
  <2> QED BY <1>10, <2>1 DEF CWritePid, TypeOK, Mapped
<1>11. ASSUME NEW c \in Clients, CPrint(c) PROVE Inv'
  BY <1>11 DEF CPrint, TypeOK, Mapped
<1>12. ASSUME NEW c \in Clients, CPrinted(c) PROVE Inv'
  <2>1. text[cseg[c]] \in Texts
    BY <1>12 DEF CPrinted, TypeOK, Mapped
  <2>2. shown' \in [Clients -> 0..MaxLines]
    BY <1>12, <2>1, TextsTyped DEF CPrinted, TypeOK
  <2> QED BY <1>12, <2>2, TextsTyped DEF CPrinted, TypeOK, Mapped
<1>13. ASSUME NEW c \in Clients, CLeave(c) PROVE Inv'
  BY <1>13, TextsTyped DEF CLeave, TypeOK, Mapped
<1>14. CASE UNCHANGED vars
  BY <1>14 DEF vars, TypeOK, Mapped
<1> QED BY <1>1, <1>2, <1>3, <1>4, <1>5, <1>6, <1>7, <1>8, <1>9, <1>10, <1>11, <1>12,
           <1>13, <1>14 DEF Next

(* The page, the programs and the signals keep their types.                *)
THEOREM TypeCorrect == Spec => []TypeOK
<1>1. Inv => TypeOK
  BY DEF Inv
<1> QED BY <1>1, InvInit, InvStep, PTL DEF Spec

----------------------------------------------------------------------------
(* A whole pid is nothing else that a segment or spid can hold.            *)
LEMMA PidsDiffer ==
  ASSUME NEW c \in Clients
  PROVE  /\ Pid(c, TRUE) # Empty /\ Pid(c, TRUE) # None
         /\ \A d \in Clients : Pid(c, TRUE) # Pid(d, FALSE)
         /\ \A d \in Clients : Pid(c, TRUE) = Pid(d, TRUE) => c = d
         /\ \A n \in 0..MaxLines : \A w \in BOOLEAN : Pid(c, TRUE) # Line(n, w)
<1>1. Pid(c, TRUE) # None
  BY TextsTyped, NoneAssumption
<1> QED BY <1>1 DEF Pid, Empty, Line

(* Opening a segment brings no pid into any.                               *)
LEMMA OpenOwns ==
  ASSUME Inv, Owned, NEW seg \in Segments, OpenSegment(seg),
         \A c \in Clients, s \in DOMAIN text : Reads(c, s) \/ cpc[c] = "gone" =>
            Reads(c, s)' \/ cpc'[c] = "gone"
  PROVE  Owned'
<1> SUFFICES ASSUME NEW c \in Clients, NEW s \in DOMAIN text', text'[s] = Pid(c, TRUE)
             PROVE  cpc'[c] = "gone" \/ Reads(c, s)'
  BY DEF Owned
<1>1. s \in DOMAIN text /\ text'[s] = text[s]
  BY Opened, PidsDiffer DEF Inv
<1> QED BY <1>1 DEF Owned

(* Only a client writes its pid, and it stays at its page until it goes.   *)
LEMMA OwnedStep == ASSUME Inv, Owned, [Next]_vars PROVE Owned'
<1> USE DEF Inv, server, clients
<1>1. CASE SStart
  <2>1. PICK seg \in Segments : OpenSegment(seg)
    BY <1>1 DEF SStart
  <2> QED BY <1>1, <2>1, OpenOwns DEF SStart, Reads
<1>2. ASSUME NEW c \in Clients, COpen(c) PROVE Owned'
  <2>1. PICK seg \in Segments : OpenSegment(seg) /\ cseg' = [cseg EXCEPT ![c] = seg]
    BY <1>2 DEF COpen
  <2> QED BY <1>2, <2>1, OpenOwns DEF COpen, Reads, TypeOK
<1>3. CASE SType \/ SCopied
  <2>1. chat' \in 0..MaxLines
    <3>1. line' \in 0..MaxLines /\ chat' \in 0..line'
      BY InvStep DEF TypeOK
    <3> QED BY <3>1, LinesAssumption
  <2>2. \/ text' = text
        \/ \E w \in BOOLEAN : text' = [text EXCEPT ![sseg] = Line(chat', w)]
    BY <1>3 DEF SType, SCopied
  <2>3. DOMAIN text' = DOMAIN text
    BY <2>2
  <2>4. \A c \in Clients : \A s \in DOMAIN text :
          text'[s] = Pid(c, TRUE) => text[s] = Pid(c, TRUE)
    <3>1. CASE text' = text
      BY <3>1
    <3>2. ASSUME NEW w \in BOOLEAN, text' = [text EXCEPT ![sseg] = Line(chat', w)]
          PROVE  \A c \in Clients : \A s \in DOMAIN text :
                   text'[s] = Pid(c, TRUE) => text[s] = Pid(c, TRUE)
      <4>1. \A s \in DOMAIN text : text'[s] = text[s] \/ text'[s] = Line(chat', w)
        BY <3>2 DEF TypeOK
      <4> QED BY <2>1, <4>1, PidsDiffer
    <3> QED BY <2>2, <3>1, <3>2
  <2> QED BY <1>3, <2>3, <2>4 DEF SType, SCopied, Owned, Reads
<1>4. ASSUME NEW c \in Clients, CWritePid(c) PROVE Owned'
  <2>1. cseg[c] \in DOMAIN text /\ DOMAIN text' = DOMAIN text
    BY <1>4 DEF CWritePid, Mapped
  <2> SUFFICES ASSUME NEW d \in Clients, NEW s \in DOMAIN text, text'[s] = Pid(d, TRUE)
               PROVE  cpc'[d] = "gone" \/ Reads(d, s)'
    BY <2>1 DEF Owned
  <2>2. CASE s = cseg[c] /\ cpc[c] = "writing"
    <3>1. text'[s] = Pid(c, TRUE) /\ cpc'[c] = "loop" /\ cseg' = cseg
      BY <1>4, <2>2 DEF CWritePid, TypeOK
    <3>2. d = c
      BY <3>1, PidsDiffer
    <3> QED BY <2>2, <3>1, <3>2 DEF Reads
  <2>3. CASE s = cseg[c] /\ cpc[c] = "mapped"
    <3>1. text'[s] = Pid(c, FALSE)
      BY <1>4, <2>3 DEF CWritePid, TypeOK
    <3> QED BY <3>1, PidsDiffer
  <2>4. CASE s # cseg[c]
    <3>1. text[s] = Pid(d, TRUE) /\ cseg' = cseg
      BY <1>4, <2>4 DEF CWritePid, TypeOK
    <3>2. cpc[d] = "gone" \/ Reads(d, s)
      BY <3>1 DEF Owned
    <3>3. d # c
      BY <1>4, <2>4, <3>2 DEF CWritePid, Reads
    <3> QED BY <1>4, <3>1, <3>2, <3>3 DEF CWritePid, Reads, TypeOK
  <2> QED BY <1>4, <2>2, <2>3, <2>4 DEF CWritePid
<1>5. ASSUME UNCHANGED text,
             \A c \in Clients : \/ cpc'[c] = "gone"
                                \/ cpc[c] # "gone" /\ UNCHANGED <<cpc[c], cseg[c]>>
                                \/ cpc[c] = "gone" /\ cpc'[c] = "gone"
                                \/ {cpc[c], cpc'[c]} \subseteq {"loop", "print"} /\ cseg'[c] = cseg[c]
                                \/ cpc[c] \in {"out", "signals", "mapped", "writing"}
      PROVE  Owned'
  BY <1>5 DEF Owned, Reads
<1>6. CASE SPoll \/ STake \/ SKill \/ SInt \/ UNCHANGED vars
  BY <1>5, <1>6 DEF SPoll, STake, SKill, SInt, vars
<1>7. ASSUME NEW c \in Clients, CStart(c) \/ CPrint(c) \/ CPrinted(c) \/ CLeave(c)
      PROVE  Owned'
  <2>1. UNCHANGED text
    BY <1>7 DEF CStart, CPrint, CPrinted, CLeave
  <2>2. \A d \in Clients \ {c} : UNCHANGED <<cpc[d], cseg[d]>>
    BY <1>7 DEF CStart, CPrint, CPrinted, CLeave, TypeOK
  <2>3. \/ cpc'[c] = "gone" \/ cpc[c] = "out"
        \/ {cpc[c], cpc'[c]} \subseteq {"loop", "print"} /\ cseg'[c] = cseg[c]
    BY <1>7 DEF CStart, CPrint, CPrinted, CLeave, TypeOK
  <2> QED BY <1>5, <2>1, <2>2, <2>3
<1> QED BY <1>1, <1>2, <1>3, <1>4, <1>6, <1>7 DEF Next

(* The pid the server has taken is as good as the text it took it from.    *)
LEMMA SamePageStep == ASSUME Inv, Owned, SamePage, [Next]_vars PROVE SamePage'
<1> USE DEF Inv, server, clients
<1>1. CASE SStart \/ SInt
  BY <1>1, PidsDiffer DEF SStart, SInt, SamePage
<1>2. CASE STake
  <2>1. sseg \in DOMAIN text
    BY <1>2 DEF STake, Mapped
  <2> QED BY <1>2, <2>1 DEF STake, Owned, Reads, SamePage
<1>3. CASE UNCHANGED <<spid, sseg, cpc, cseg>>
  BY <1>3 DEF SamePage
<1>4. ASSUME NEW c \in Clients,
             CStart(c) \/ COpen(c) \/ CWritePid(c) \/ CPrint(c) \/ CPrinted(c) \/ CLeave(c)
      PROVE  SamePage'
  <2>1. UNCHANGED <<spid, sseg>> /\ \A d \in Clients \ {c} : UNCHANGED <<cpc[d], cseg[d]>>
    BY <1>4 DEF CStart, COpen, CWritePid, CPrint, CPrinted, CLeave, TypeOK
  <2>2. \/ cpc'[c] = "gone" \/ cpc[c] \in {"out", "signals", "mapped", "writing"}
        \/ {cpc[c], cpc'[c]} \subseteq {"loop", "print"} /\ cseg'[c] = cseg[c]
    BY <1>4 DEF CStart, COpen, CWritePid, CPrint, CPrinted, CLeave, TypeOK
  <2>3. ASSUME NEW d \in Clients, spid = Pid(d, TRUE)
        PROVE  cpc'[d] = "gone" \/ (cpc'[d] \in {"loop", "print"} /\ cseg'[d] = sseg)
    <3>1. cpc[d] = "gone" \/ (cpc[d] \in {"loop", "print"} /\ cseg[d] = sseg)
      BY <2>3 DEF SamePage
    <3>2. CASE d = c
      <4>1. cpc[c] # "gone"
        BY <1>4 DEF CStart, COpen, CWritePid, CPrint, CPrinted, CLeave
      <4> QED BY <2>2, <3>1, <3>2, <4>1
    <3> QED BY <2>1, <3>1, <3>2
  <2> QED BY <2>1, <2>3 DEF SamePage
<1> QED BY <1>1, <1>2, <1>3, <1>4 DEF Next, vars, SPoll, SType, SCopied, SKill

(* A server that has a client's whole pid shares its page with it.         *)
THEOREM OwnerSharesPage == Spec => []SamePage
<1>1. Init => Owned /\ SamePage
  <2> SUFFICES ASSUME Init PROVE Owned /\ SamePage
    OBVIOUS
  <2>1. DOMAIN text = {} /\ spid = None
    BY DEF Init
  <2> QED BY <2>1, PidsDiffer DEF Owned, SamePage
<1> QED BY <1>1, InvInit, InvStep, OwnedStep, SamePageStep, PTL DEF Spec
=============================================================================
