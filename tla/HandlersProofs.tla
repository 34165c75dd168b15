--------------------------- MODULE HandlersProofs ---------------------------
(***************************************************************************)
(* Theorems about the buffer of the character drivers, for any sizes of the *)
(* page and the block, about the proc entry and about the LED, for any     *)
(* number of processes.                                                    *)
(***************************************************************************)
EXTENDS Handlers, TLAPS

(* What the handlers' arithmetic rests on: size and every position stay in *)
(* the page, and a call in progress has room for its bytes.                *)
Room(c) == c.from + c.n <= Page

InPage ==
  /\ size \in 0..Page
  /\ pos \in [Users -> -1..Page]
  /\ writes \in 0..MaxWrites
  /\ call \in [Users -> {Idle} \cup B!Calls]
  /\ \A u \in Users : call[u] # Idle => Room(call[u])

USE SizesAssumption

\* Nobody is inside a call at first.
LEMMA InPageInit == Init => InPage
  BY DEF Init, B!Init, InPage, B!Closed

(* What a write takes away from the others leaves their place and length.  *)
LEMMA DisturbedCalls ==
  ASSUME NEW c \in {Idle} \cup B!Calls, c # Idle => Room(c)
  PROVE  /\ B!Disturbed(c) \in {Idle} \cup B!Calls
         /\ B!Disturbed(c) # Idle =>
              /\ c # Idle /\ Room(B!Disturbed(c)) /\ ~B!Disturbed(c).alone
              /\ B!Disturbed(c).op = c.op
              /\ B!Disturbed(c).n = c.n /\ B!Disturbed(c).i = c.i
<1>1. CASE c = Idle
  BY <1>1 DEF B!Disturbed
<1>2. CASE c # Idle
  BY <1>2 DEF B!Disturbed, B!Calls, Room
<1> QED BY <1>1, <1>2

\* A write begins with a length that the block has room for.
LEMMA WriteStep ==
  ASSUME InPage, NEW u \in Users, B!Write(u) PROVE InPage' /\ call'[u] \in B!Calls
<1>1. PICK n \in 0..Page :
        call' = [v \in Users |->
                   IF v = u
                   THEN B!Begin("clear", writes', pos[u],
                                B!WriteCount(n, pos[u]), ~B!SomeWrite)
                   ELSE B!Disturbed(call[v])]
  BY DEF B!Write
<1> DEFINE c == B!Begin("clear", writes', pos[u], B!WriteCount(n, pos[u]), ~B!SomeWrite)
<1>2. pos[u] \in 0..Page /\ writes' \in 0..MaxWrites
  BY DEF B!Write, B!Ready, B!Closed, InPage
<1>3. /\ B!WriteCount(n, pos[u]) \in 0..Page
      /\ pos[u] + B!WriteCount(n, pos[u]) <= Page
  BY <1>2 DEF B!WriteCount
<1>4. c \in B!Calls /\ Room(c)
  BY <1>2, <1>3 DEF B!Calls, B!Begin, Room
<1> HIDE DEF c
<1>5. \A v \in Users : call'[v] = IF v = u THEN c ELSE B!Disturbed(call[v])
  BY <1>1 DEF c
<1>6. \A v \in Users : /\ call'[v] \in {Idle} \cup B!Calls
                       /\ call'[v] # Idle => Room(call'[v])
  BY <1>4, <1>5, DisturbedCalls DEF InPage
<1>7. call' \in [Users -> {Idle} \cup B!Calls]
  BY <1>1, <1>6
<1> QED BY <1>2, <1>4, <1>5, <1>6, <1>7 DEF InPage, B!Write

\* So does a read.
LEMMA ReadStep ==
  ASSUME InPage, NEW u \in Users, B!Read(u) PROVE InPage'
<1>1. PICK n \in 1..Page :
        /\ B!ReadCount(n, pos[u]) >= 0
        /\ call' = [call EXCEPT ![u] =
                      B!Begin("read", 0, pos[u], B!ReadCount(n, pos[u]),
                              ~B!SomeWrite /\ ~mixed)]
  BY DEF B!Read
<1> DEFINE c == B!Begin("read", 0, pos[u], B!ReadCount(n, pos[u]),
                        ~B!SomeWrite /\ ~mixed)
<1>2. pos[u] \in 0..Page /\ size \in 0..Page
  BY DEF B!Read, B!Ready, B!Closed, InPage
<1>3. /\ B!ReadCount(n, pos[u]) \in 0..Page
      /\ pos[u] + B!ReadCount(n, pos[u]) <= Page
  BY <1>1, <1>2 DEF B!ReadCount
<1>4. c \in B!Calls /\ Room(c)
  BY <1>2, <1>3 DEF B!Calls, B!Begin, Room
<1> HIDE DEF c
<1>5. call' = [call EXCEPT ![u] = c]
  BY <1>1 DEF c
<1> QED BY <1>4, <1>5 DEF InPage, B!Read

(* A call in progress only counts on, or turns from clearing to filling.   *)
LEMMA ClearStep ==
  ASSUME InPage, NEW u \in Users, B!Clear(u) PROVE InPage'
<1>1. call[u] \in B!Calls /\ call[u] # Idle
  BY DEF B!Clear, B!In, InPage
<1>2. PICK c \in B!Calls : /\ Room(c)
                           /\ call' = [call EXCEPT ![u] = c]
  <2>1. CASE call[u].i < Page
    <3> DEFINE c == [call[u] EXCEPT !.i = @ + 1]
    <3>1. c \in B!Calls /\ Room(c)
      BY <1>1, <2>1 DEF B!Calls, Room, InPage
    <3> QED BY <2>1, <3>1 DEF B!Clear
  <2>2. CASE ~(call[u].i < Page)
    <3> DEFINE c == B!Begin("fill", call[u].id, call[u].from, call[u].n, call[u].alone)
    <3>1. c \in B!Calls /\ Room(c)
      BY <1>1 DEF B!Calls, B!Begin, Room, InPage
    <3>2. call' = [call EXCEPT ![u] = c]
      BY <2>2 DEF B!Clear, B!ToFill, InPage
    <3> QED BY <3>1, <3>2
  <2> QED BY <2>1, <2>2
<1> QED BY <1>2 DEF InPage, B!Clear

\* A write takes its bytes one after the other and then moves the place.
LEMMA FillStep ==
  ASSUME InPage, NEW u \in Users, B!Fill(u) PROVE InPage'
<1>1. /\ call[u] \in B!Calls /\ call[u] # Idle /\ Room(call[u])
      /\ call[u].from + call[u].n \in 0..Page
  BY DEF B!Fill, B!In, B!Calls, Room, InPage
<1>2. CASE call[u].i < call[u].n /\ call' = [call EXCEPT ![u].i = @ + 1]
           /\ UNCHANGED <<size, pos>>
  <2> DEFINE c == [call[u] EXCEPT !.i = @ + 1]
  <2>1. c \in B!Calls /\ Room(c) /\ call' = [call EXCEPT ![u] = c]
    BY <1>1, <1>2 DEF B!Calls, Room
  <2> QED BY <1>2, <2>1 DEF InPage, B!Fill
<1>3. CASE call' = [call EXCEPT ![u] = Idle]
           /\ \/ UNCHANGED <<size, pos>>
              \/ /\ pos' = [pos EXCEPT ![u] = call[u].from + call[u].n]
                 /\ size' = call[u].from + call[u].n
  BY <1>1, <1>3 DEF InPage, B!Fill
<1> QED BY <1>2, <1>3 DEF B!Fill

\* A read hands its bytes over one after the other and then moves the place.
LEMMA CopyStep ==
  ASSUME InPage, NEW u \in Users, B!Copy(u) PROVE InPage'
<1>1. /\ call[u] \in B!Calls /\ call[u] # Idle /\ Room(call[u])
      /\ call[u].from + call[u].n \in 0..Page
  BY DEF B!Copy, B!In, B!Calls, Room, InPage
<1>2. CASE call[u].i < call[u].n
  <2> DEFINE c == [call[u] EXCEPT !.i = @ + 1]
  <2>1. c \in B!Calls /\ Room(c) /\ call' = [call EXCEPT ![u] = c]
    BY <1>1, <1>2 DEF B!Calls, Room, B!Copy
  <2> QED BY <1>2, <2>1 DEF InPage, B!Copy
<1>3. CASE ~(call[u].i < call[u].n)
  BY <1>1, <1>3 DEF InPage, B!Copy
<1> QED BY <1>2, <1>3

\* No handler leaves the block, whoever else is inside one.
LEMMA InPageStep == InPage /\ [Next]_vars => InPage'
<1> SUFFICES ASSUME InPage, [Next]_vars PROVE InPage'
  OBVIOUS
<1>1. ASSUME NEW u \in Users, B!Open(u) \/ B!Close(u) PROVE InPage'
  BY <1>1 DEF InPage, B!Open, B!Close, B!Closed
<1>2. ASSUME NEW u \in Users, B!Seek(u) PROVE InPage'
  <2>1. PICK to : to >= 0 /\ to <= Alloc /\ to \in Int /\ pos' = [pos EXCEPT ![u] = to]
    <3>1. PICK whence \in {"SET", "CUR", "END"}, offset \in -Page..Page :
            LET to == B!Target(u, offset, whence)
            IN  to >= 0 /\ to <= Alloc /\ pos' = [pos EXCEPT ![u] = to]
      BY <1>2 DEF B!Seek
    <3>2. pos[u] \in Int /\ offset \in Int
      BY DEF InPage
    <3>3. B!Target(u, offset, whence) \in Int
      BY <3>2 DEF B!Target
    <3> QED BY <3>1, <3>3
  <2> QED BY <1>2, <2>1 DEF InPage, B!Seek
<1>3. CASE B!Overrun
  BY <1>3 DEF InPage, B!Overrun
<1>4. CASE UNCHANGED buffer
  BY <1>4 DEF InPage, buffer
<1> QED BY <1>1, <1>2, <1>3, <1>4, WriteStep, ReadStep, ClearStep, FillStep, CopyStep
        DEF Next, vars, B!Next

(* No copy leaves the page, whatever position it starts from and however   *)
(* other files change the size under it.                                   *)
THEOREM CopiesStayInPage == Spec => []CopiesInPage
<1>1. InPage => CopiesInPage
  BY DEF InPage, CopiesInPage, Room
<1> QED BY <1>1, InPageInit, InPageStep, PTL DEF Spec

----------------------------------------------------------------------------
(* Nothing of what kmalloc left in the block is ever returned: a size and a *)
(* copy begin with a block that one write at least has cleared.            *)
Block  == 0..(Alloc - 1)
NoJunk == \A j \in Block : mem[j] # B!Junk

JunkInv ==
  /\ mem \in [Block -> B!Bytes] /\ got \in [Users -> SUBSET B!Bytes]
  /\ size > 0 => NoJunk
  /\ \A u \in Users : call[u] # Idle =>
       /\ call[u].op = "fill" => NoJunk
       /\ call[u].op = "read" /\ call[u].n > 0 => NoJunk
       /\ call[u].op = "clear" =>
            \A j \in Block : j < call[u].i => mem[j] # B!Junk
  /\ \A u \in Users : B!Junk \notin got[u]

\* A byte that is stored changes its place alone and spoils none.
LEMMA Puts ==
  ASSUME JunkInv, NEW i, NEW byte \in B!Bytes \ {B!Junk}, mem' = B!Put(i, byte)
  PROVE  /\ mem' \in [Block -> B!Bytes]
         /\ \A j \in Block : mem'[j] = IF j = i THEN byte ELSE mem[j]
         /\ \A j \in Block : mem[j] # B!Junk => mem'[j] # B!Junk
  BY DEF JunkInv, B!Put

\* No step hands out memory that nobody has written.
LEMMA JunkStep == InPage /\ JunkInv /\ [Next]_vars => JunkInv'
<1> SUFFICES ASSUME InPage, JunkInv, [Next]_vars PROVE JunkInv'
  OBVIOUS
<1>1. ASSUME NEW u \in Users, B!Open(u) \/ B!Close(u) \/ B!Seek(u) PROVE JunkInv'
  BY <1>1 DEF JunkInv, NoJunk, B!Open, B!Close, B!Seek
<1>2. ASSUME NEW u \in Users, B!Write(u) PROVE JunkInv'
  <2>1. PICK c : /\ c.op = "clear" /\ c.i = 0
                 /\ \A v \in Users : call'[v] = IF v = u THEN c ELSE B!Disturbed(call[v])
    BY <1>2 DEF B!Write, B!Begin
  <2>2. \A v \in Users : v # u /\ call'[v] # Idle =>
          /\ call[v] # Idle /\ call'[v].op = call[v].op
          /\ call'[v].n = call[v].n /\ call'[v].i = call[v].i
    BY <2>1, DisturbedCalls DEF InPage
  <2> QED BY <1>2, <2>1, <2>2 DEF JunkInv, NoJunk, B!Write, Block
<1>3. ASSUME NEW u \in Users, B!Clear(u) PROVE JunkInv'
  <2>1. call[u] \in B!Calls /\ call[u] # Idle /\ call[u].op = "clear"
    BY <1>3 DEF B!Clear, B!In, InPage
  <2>2. CASE call[u].i < Page
    <3>1. mem' = B!Put(call[u].i, B!Zero) /\ B!Zero \in B!Bytes \ {B!Junk}
      BY <1>3, <2>2 DEF B!Clear, B!Zero, B!Bytes, B!Junk
    <3>2. /\ call'[u].op = "clear" /\ call'[u].i = call[u].i + 1
          /\ \A v \in Users : v # u => call'[v] = call[v]
      BY <1>3, <2>1, <2>2 DEF B!Clear, InPage, B!Calls
    <3>3. \A j \in Block : j < call'[u].i => mem'[j] # B!Junk
      BY <2>1, <3>1, <3>2, Puts DEF JunkInv, B!Calls, Block, B!Zero, B!Junk
    <3> QED BY <1>3, <2>1, <3>1, <3>2, <3>3, Puts DEF JunkInv, NoJunk, B!Clear
  <2>3. CASE ~(call[u].i < Page)
    <3>1. NoJunk
      BY <2>1, <2>3 DEF JunkInv, NoJunk, B!Calls, Block
    <3>2. \A v \in Users : v # u => call'[v] = call[v]
      BY <1>3, <2>3 DEF B!Clear, B!ToFill, InPage
    <3>3. call'[u].op = "fill"
      BY <1>3, <2>3 DEF B!Clear, B!ToFill, B!Begin, InPage
    <3> QED BY <1>3, <2>3, <3>1, <3>2, <3>3 DEF JunkInv, NoJunk, B!Clear
  <2> QED BY <2>2, <2>3
<1>4. ASSUME NEW u \in Users, B!Fill(u) PROVE JunkInv'
  <2>1. /\ call[u] \in B!Calls /\ call[u] # Idle /\ call[u].op = "fill" /\ NoJunk
    BY <1>4 DEF B!Fill, B!In, InPage, JunkInv
  <2>2. CASE /\ mem' = B!Put(call[u].from + call[u].i, call[u].id)
             /\ call' = [call EXCEPT ![u].i = @ + 1] /\ UNCHANGED size
    <3>1. PICK byte \in B!Bytes : mem' = B!Put(call[u].from + call[u].i, byte) /\ byte # B!Junk
      BY <2>1, <2>2 DEF B!Calls, B!Bytes, B!Junk
    <3>2. NoJunk'
      BY <2>1, <3>1, Puts DEF NoJunk
    <3>3. \A v \in Users : v # u => call'[v] = call[v]
      BY <2>2 DEF InPage
    <3>4. call'[u].op = "fill"
      BY <2>1, <2>2 DEF InPage, B!Calls
    <3> QED BY <1>4, <3>1, <3>2, <3>3, <3>4, Puts DEF JunkInv, NoJunk, B!Fill
  <2>3. CASE call' = [call EXCEPT ![u] = Idle] /\ UNCHANGED mem
    BY <1>4, <2>1, <2>3 DEF JunkInv, NoJunk, B!Fill, InPage
  <2> QED BY <1>4, <2>2, <2>3 DEF B!Fill
<1>5. ASSUME NEW u \in Users, B!Read(u) PROVE JunkInv'
  <2>1. PICK c : /\ call' = [call EXCEPT ![u] = c] /\ c.op = "read"
                 /\ c.n > 0 => size > 0
    <3>1. PICK n \in 1..Page :
            /\ B!ReadCount(n, pos[u]) >= 0
            /\ call' = [call EXCEPT ![u] =
                          B!Begin("read", 0, pos[u], B!ReadCount(n, pos[u]),
                                  ~B!SomeWrite /\ ~mixed)]
      BY <1>5 DEF B!Read
    <3>2. pos[u] \in 0..Page /\ size \in 0..Page
      BY <1>5 DEF B!Read, B!Ready, B!Closed, InPage
    <3>3. B!ReadCount(n, pos[u]) > 0 => size > 0
      BY <3>2 DEF B!ReadCount
    <3> DEFINE d == B!Begin("read", 0, pos[u], B!ReadCount(n, pos[u]),
                            ~B!SomeWrite /\ ~mixed)
    <3>4. d.op = "read" /\ d.n = B!ReadCount(n, pos[u])
      BY DEF B!Begin
    <3>5. call' = [call EXCEPT ![u] = d]
      BY <3>1
    <3> HIDE DEF d
    <3> WITNESS d
    <3> QED BY <3>3, <3>4, <3>5
  <2> QED BY <1>5, <2>1 DEF JunkInv, NoJunk, B!Read, InPage, B!Bytes
<1>6. ASSUME NEW u \in Users, B!Copy(u) PROVE JunkInv'
  <2>1. call[u] \in B!Calls /\ call[u] # Idle /\ call[u].op = "read"
    BY <1>6 DEF B!Copy, B!In, InPage
  <2>2. CASE call[u].i < call[u].n
    <3>1. NoJunk
      BY <2>1, <2>2 DEF JunkInv, B!Calls
    <3>2. /\ call'[u].op = "read" /\ call'[u].n = call[u].n
          /\ \A v \in Users : v # u => call'[v] = call[v]
      BY <1>6, <2>1, <2>2 DEF B!Copy, InPage, B!Calls
    <3>3. /\ got' \in [Users -> SUBSET B!Bytes]
          /\ \A v \in Users : B!Junk \notin got'[v]
      BY <1>6, <2>2, <3>1 DEF B!Copy, JunkInv, NoJunk
    <3> QED BY <1>6, <2>1, <3>1, <3>2, <3>3 DEF JunkInv, NoJunk, B!Copy
  <2>3. CASE ~(call[u].i < call[u].n)
    BY <1>6, <2>3 DEF B!Copy, JunkInv, NoJunk, InPage
  <2> QED BY <2>2, <2>3
<1>7. CASE B!Overrun \/ UNCHANGED buffer
  BY <1>7 DEF JunkInv, NoJunk, B!Overrun, buffer
<1> QED BY <1>1, <1>2, <1>3, <1>4, <1>5, <1>6, <1>7 DEF Next, vars, B!Next

----------------------------------------------------------------------------
(* Bytes of one write at most, with zeros and what kmalloc left.           *)
One(w) == \A j \in Block : mem[j] \in {B!Junk, B!Zero, w}

(* A write that is alone is the only one, and fills a block of zeros; the  *)
(* block is of one write as long as no two overlap, and until one that is  *)
(* alone has written again after two did; a read that is alone copies from *)
(* a block that does not change.                                           *)
Writers ==
  /\ \A u, v \in Users : B!Writing(u) /\ call[u].alone /\ B!Writing(v) => u = v
  /\ ~mixed => \A u \in Users : B!Writing(u) => call[u].alone
  /\ ~mixed /\ (\A u \in Users : ~B!Writing(u)) => \E w : One(w)

Filling(u) ==
  B!Writing(u) /\ call[u].alone =>
    /\ call[u].op = "fill" => One(call[u].id)
    /\ call[u].op = "clear" => \A j \in Block : j < call[u].i => mem[j] = B!Zero

Reading(u) ==
  call[u] # Idle /\ call[u].op = "read" /\ call[u].alone =>
    /\ ~mixed /\ \A v \in Users : ~B!Writing(v)
    /\ got[u] \subseteq {mem[j] : j \in Block}

TurnInv == Writers /\ \A u \in Users : Filling(u) /\ Reading(u)

BufInv == InPage /\ JunkInv /\ TurnInv

(* A write begins: no read is alone any more, and of the writes only this  *)
(* one, and only if there is no other.                                     *)
LEMMA TurnWrite ==
  ASSUME BufInv, NEW u \in Users, B!Write(u) PROVE TurnInv'
<1>1. PICK c : /\ c.op = "clear" /\ c.i = 0 /\ (c.alone <=> ~B!SomeWrite)
               /\ \A v \in Users : call'[v] = IF v = u THEN c ELSE B!Disturbed(call[v])
  <2>1. PICK n \in 0..Page :
          call' = [v \in Users |->
                     IF v = u
                     THEN B!Begin("clear", writes', pos[u],
                                  B!WriteCount(n, pos[u]), ~B!SomeWrite)
                     ELSE B!Disturbed(call[v])]
    BY DEF B!Write
  <2> DEFINE d == B!Begin("clear", writes', pos[u],
                          B!WriteCount(n, pos[u]), ~B!SomeWrite)
  <2>2. d.op = "clear" /\ d.i = 0 /\ (d.alone <=> ~B!SomeWrite)
    BY DEF B!Begin
  <2>3. \A v \in Users : call'[v] = IF v = u THEN d ELSE B!Disturbed(call[v])
    BY <2>1
  <2> HIDE DEF d
  <2> WITNESS d
  <2> QED BY <2>2, <2>3
<1>2. \A v \in Users : v # u /\ call'[v] # Idle =>
        /\ call[v] # Idle /\ call'[v].op = call[v].op
        /\ ~call'[v].alone
  <2>1. \A v \in Users : call[v] \in {Idle} \cup B!Calls /\ (call[v] # Idle => Room(call[v]))
    BY DEF BufInv, InPage
  <2> QED BY <1>1, <2>1, DisturbedCalls
<1>3. /\ call[u] = Idle /\ call'[u] = c
      /\ mixed' = (mixed \/ B!SomeWrite) /\ UNCHANGED <<mem, got>>
  BY <1>1 DEF B!Write, B!Ready
<1>4. \A v \in Users : v # u /\ B!Writing(v)' => B!Writing(v)
  BY <1>2 DEF B!Writing
<1>5. Writers'
  <2>1. call'[u] # Idle
    BY WriteStep, IdleAssumption DEF BufInv
  <2>2. B!Writing(u)'
    BY <1>1, <1>3, <2>1 DEF B!Writing
  <2>3. ASSUME NEW v \in Users, v # u, B!Writing(v)'
        PROVE  B!SomeWrite /\ ~call'[v].alone
    BY <1>2, <1>4, <2>3 DEF B!SomeWrite, B!Writing
  <2>4. call'[u].alone => ~B!SomeWrite
    BY <1>1, <1>3
  <2>5. ~mixed' => call'[u].alone /\ ~B!SomeWrite
    BY <1>1, <1>3
  <2> QED BY <2>2, <2>3, <2>4, <2>5 DEF Writers
<1>6. \A v \in Users : Filling(v)' /\ Reading(v)'
  BY <1>1, <1>2, <1>3 DEF Filling, Reading, B!Writing, Block
<1> QED BY <1>5, <1>6 DEF TurnInv

\* The zeroes of a write leave the order of the others alone.
LEMMA TurnClear ==
  ASSUME BufInv, NEW u \in Users, B!Clear(u) PROVE TurnInv'
<1>1. /\ call[u] \in B!Calls /\ call[u] # Idle /\ call[u].op = "clear"
      /\ B!Writing(u) /\ Filling(u) /\ UNCHANGED <<mixed, got>>
  BY DEF B!Clear, B!In, B!Writing, BufInv, InPage, TurnInv
<1>2. /\ call'[u].op \in {"clear", "fill"} /\ call'[u].alone = call[u].alone
      /\ \A v \in Users : v # u => call'[v] = call[v]
  BY <1>1 DEF B!Clear, B!ToFill, B!Begin, BufInv, InPage, B!Calls
<1>3. Filling(u)'
  <2>1. CASE call[u].i < Page
    <3>1. mem' = B!Put(call[u].i, B!Zero) /\ B!Zero \in B!Bytes \ {B!Junk}
      BY <2>1 DEF B!Clear, B!Zero, B!Bytes, B!Junk
    <3>2. call'[u].op = "clear" /\ call'[u].i = call[u].i + 1
      BY <1>1, <2>1 DEF B!Clear, BufInv, InPage, B!Calls
    <3> QED BY <1>1, <1>2, <3>1, <3>2, Puts DEF BufInv, Filling, B!Calls, Block
  <2>2. CASE ~(call[u].i < Page)
    <3>1. call'[u].op = "fill" /\ UNCHANGED mem
      BY <2>2 DEF B!Clear, B!ToFill, B!Begin, BufInv, InPage
    <3>2. call[u].alone => \A j \in Block : mem[j] = B!Zero
      BY <1>1, <2>2 DEF Filling, B!Calls, Block
    <3> QED BY <1>2, <3>1, <3>2 DEF Filling, One
  <2> QED BY <2>1, <2>2
<1>4. \A v \in Users : v # u => ~(B!Writing(v) /\ call[v].alone)
  BY <1>1 DEF BufInv, TurnInv, Writers
<1>5. \A v \in Users : ~(call[v] # Idle /\ call[v].op = "read" /\ call[v].alone)
  BY <1>1 DEF BufInv, TurnInv, Reading
<1>6. \A v \in Users : Filling(v)' /\ Reading(v)'
  BY <1>1, <1>2, <1>3, <1>4, <1>5 DEF Filling, Reading, B!Writing
<1>7. \A v \in Users : B!Writing(v)' => B!Writing(v) /\ call'[v].alone = call[v].alone
  BY <1>1, <1>2 DEF B!Writing
<1>8. call'[u] # Idle => B!Writing(u)'
  BY <1>2 DEF B!Writing
<1>9. call'[u] # Idle
  BY <1>1, IdleAssumption DEF B!Clear, B!ToFill, B!Begin, B!Calls, BufInv, InPage
<1> QED BY <1>1, <1>6, <1>7, <1>8, <1>9 DEF TurnInv, Writers, BufInv

\* The bytes of a write that is alone stay in one piece.
LEMMA TurnFill ==
  ASSUME BufInv, NEW u \in Users, B!Fill(u) PROVE TurnInv'
<1>1. /\ call[u] \in B!Calls /\ call[u] # Idle /\ call[u].op = "fill"
      /\ B!Writing(u) /\ Filling(u) /\ UNCHANGED got
  BY DEF B!Fill, B!In, B!Writing, BufInv, InPage, TurnInv
<1>2. \A v \in Users : v # u => ~(B!Writing(v) /\ call[v].alone)
  BY <1>1 DEF BufInv, TurnInv, Writers
<1>3. \A v \in Users : ~(call[v] # Idle /\ call[v].op = "read" /\ call[v].alone)
  BY <1>1 DEF BufInv, TurnInv, Reading
<1>4. CASE /\ mem' = B!Put(call[u].from + call[u].i, call[u].id)
           /\ call[u].i < call[u].n
           /\ call' = [call EXCEPT ![u].i = @ + 1] /\ UNCHANGED mixed
  <2>1. /\ call'[u].op = "fill" /\ call'[u].alone = call[u].alone
        /\ call'[u].id = call[u].id /\ call'[u] # Idle
        /\ \A v \in Users : v # u => call'[v] = call[v]
    <3>1. [call[u] EXCEPT !.i = @ + 1].op = "fill"
      BY <1>1 DEF B!Calls
    <3>2. call'[u] = [call[u] EXCEPT !.i = @ + 1]
      BY <1>4 DEF BufInv, InPage
    <3>3. /\ call'[u].alone = call[u].alone /\ call'[u].id = call[u].id
          /\ \A v \in Users : v # u => call'[v] = call[v]
      BY <1>1, <1>4 DEF BufInv, InPage, B!Calls
    <3>4. call'[u] # Idle
      <4>1. call'[u] \in B!Calls
        BY <1>1, <1>4, <3>2 DEF B!Calls
      <4> QED BY <4>1, IdleAssumption
    <3> QED BY <3>1, <3>2, <3>3, <3>4
  <2>2. Filling(u)'
    BY <1>1, <1>4, <2>1 DEF Filling, One, B!Put, B!Writing, BufInv, JunkInv
  <2>3. \A v \in Users : Filling(v)' /\ Reading(v)'
    BY <1>1, <1>2, <1>3, <2>1, <2>2 DEF Filling, Reading, B!Writing
  <2>4. \A v \in Users : B!Writing(v)' <=> B!Writing(v)
    BY <1>1, <2>1 DEF B!Writing
  <2>5. \A v \in Users : B!Writing(v) => call'[v].alone = call[v].alone
    BY <2>1
  <2> QED BY <1>1, <1>4, <2>3, <2>4, <2>5 DEF TurnInv, Writers, BufInv
<1>5. CASE /\ call' = [call EXCEPT ![u] = Idle] /\ UNCHANGED mem
           /\ mixed' = mixed \/ mixed' = (mixed /\ ~call[u].alone)
  <2>1. /\ call'[u] = Idle /\ \A v \in Users : v # u => call'[v] = call[v]
    BY <1>5 DEF BufInv, InPage
  <2>2. \A v \in Users : Filling(v)' /\ Reading(v)'
    BY <1>1, <1>2, <1>3, <2>1 DEF Filling, Reading, B!Writing
  <2>3. \A v \in Users : B!Writing(v)' => B!Writing(v) /\ v # u /\ call'[v] = call[v]
    BY <2>1 DEF B!Writing
  <2>4. ~mixed' => call[u].alone
    BY <1>1, <1>5 DEF BufInv, TurnInv, Writers
  <2>5. call[u].alone => /\ \E w : One(w)'
                         /\ \A v \in Users : ~B!Writing(v)'
    <3>1. call[u].alone => One(call[u].id)
      BY <1>1 DEF Filling
    <3>2. call[u].alone => \A v \in Users : B!Writing(v) => v = u
      BY <1>1 DEF BufInv, TurnInv, Writers
    <3>3. \A w : One(w) => One(w)'
      BY <1>5 DEF One
    <3> QED BY <3>1, <3>2, <3>3, <2>3
  <2> QED BY <2>2, <2>3, <2>4, <2>5 DEF TurnInv, Writers, BufInv
<1> QED BY <1>4, <1>5 DEF B!Fill

\* A read that begins alone has seen no bytes yet.
LEMMA TurnRead ==
  ASSUME BufInv, NEW u \in Users, B!Read(u) PROVE TurnInv'
<1>1. PICK c : /\ call' = [call EXCEPT ![u] = c] /\ c.op = "read"
               /\ c.alone => ~B!SomeWrite /\ ~mixed
  <2>1. PICK n \in 1..Page :
          call' = [call EXCEPT ![u] =
                     B!Begin("read", 0, pos[u], B!ReadCount(n, pos[u]),
                             ~B!SomeWrite /\ ~mixed)]
    BY DEF B!Read
  <2> DEFINE d == B!Begin("read", 0, pos[u], B!ReadCount(n, pos[u]),
                          ~B!SomeWrite /\ ~mixed)
  <2>2. d.op = "read" /\ (d.alone => ~B!SomeWrite /\ ~mixed)
    BY DEF B!Begin
  <2>3. call' = [call EXCEPT ![u] = d]
    BY <2>1
  <2> HIDE DEF d
  <2> WITNESS d
  <2> QED BY <2>2, <2>3
<1>2. /\ call[u] = Idle /\ call'[u] = c /\ got'[u] = {} /\ UNCHANGED <<mem, mixed>>
      /\ \A v \in Users : v # u => call'[v] = call[v] /\ got'[v] = got[v]
  BY <1>1 DEF B!Read, B!Ready, BufInv, InPage, JunkInv
<1>3. \A v \in Users : /\ B!Writing(v)' <=> B!Writing(v)
                       /\ B!Writing(v) => call'[v] = call[v]
  BY <1>1, <1>2 DEF B!Writing
<1>4. Writers'
  BY <1>2, <1>3 DEF Writers, One, BufInv, TurnInv
<1>5. \A v \in Users : Filling(v)'
  BY <1>2, <1>3 DEF Filling, One, BufInv, TurnInv
<1>6. \A v \in Users : Reading(v)'
  BY <1>1, <1>2, <1>3 DEF Reading, B!SomeWrite, BufInv, TurnInv
<1> QED BY <1>4, <1>5, <1>6 DEF TurnInv

\* A read that is alone sees the bytes of one write only.
LEMMA TurnCopy ==
  ASSUME BufInv, NEW u \in Users, B!Copy(u) PROVE TurnInv'
<1>1. /\ call[u] \in B!Calls /\ call[u] # Idle /\ call[u].op = "read" /\ Reading(u)
      /\ UNCHANGED <<mem, mixed>>
  BY DEF B!Copy, B!In, BufInv, InPage, TurnInv
<1>2. /\ call'[u] = Idle \/ (call'[u].op = "read" /\ call'[u].alone = call[u].alone)
      /\ \A v \in Users : v # u => call'[v] = call[v] /\ got'[v] = got[v]
  BY <1>1 DEF B!Copy, BufInv, InPage, JunkInv, B!Calls
<1>3. got[u] \subseteq {mem[j] : j \in Block} => got'[u] \subseteq {mem'[j] : j \in Block}
  BY <1>1 DEF B!Copy, BufInv, JunkInv
<1>4. \A v \in Users : /\ B!Writing(v)' <=> B!Writing(v)
                       /\ B!Writing(v) => call'[v] = call[v]
  BY <1>1, <1>2 DEF B!Writing
<1>5. Writers'
  BY <1>1, <1>4 DEF Writers, One, BufInv, TurnInv
<1>6. \A v \in Users : Filling(v)'
  BY <1>1, <1>4 DEF Filling, One, BufInv, TurnInv
<1>7. \A v \in Users : Reading(v)'
  BY <1>1, <1>2, <1>3, <1>4 DEF Reading, BufInv, TurnInv
<1> QED BY <1>5, <1>6, <1>7 DEF TurnInv

\* Each step of the handlers keeps what single writers and readers rely on.
LEMMA TurnStep == BufInv /\ [Next]_vars => TurnInv'
<1> SUFFICES ASSUME BufInv, [Next]_vars PROVE TurnInv'
  OBVIOUS
<1>1. ASSUME NEW u \in Users, B!Open(u) \/ B!Close(u) \/ B!Seek(u) PROVE TurnInv'
  <2>1. UNCHANGED <<mem, call, mixed>>
    BY <1>1 DEF B!Open, B!Close, B!Seek
  <2>2. \A v \in Users : got'[v] = got[v] \/ got'[v] = {}
    BY <1>1 DEF B!Open, B!Close, B!Seek, BufInv, JunkInv
  <2> QED BY <2>1, <2>2 DEF BufInv, TurnInv, Writers, Filling, Reading, One, B!Writing
<1>2. CASE B!Overrun \/ UNCHANGED buffer
  BY <1>2 DEF B!Overrun, buffer, BufInv, TurnInv, Writers, Filling, Reading, One, B!Writing
<1> QED BY <1>1, <1>2, TurnWrite, TurnClear, TurnFill, TurnRead, TurnCopy
        DEF Next, vars, B!Next

(* A read that overlaps no write, after writes that did not overlap, is of *)
(* one write; and none returns what was in the memory before.              *)
THEOREM ReadsAreOfOneWrite == Spec => []ReadsOneWrite
<1>1. Init => BufInv
  <2>1. Init => JunkInv /\ TurnInv
    BY DEF Init, B!Init, JunkInv, TurnInv, Writers, Filling, Reading, One, NoJunk,
           B!Writing, B!Bytes, B!Junk, Block
  <2> QED BY <2>1, InPageInit DEF BufInv
<1>2. BufInv /\ [Next]_vars => BufInv'
  BY InPageStep, JunkStep, TurnStep DEF BufInv
<1>3. BufInv => ReadsOneWrite
  <2> SUFFICES ASSUME BufInv, NEW u \in Users PROVE
        /\ B!Junk \notin got[u]
        /\ call[u] # Idle /\ call[u].op = "read" /\ call[u].alone =>
             \A a, b \in got[u] : a = b \/ B!Zero \in {a, b}
    BY DEF ReadsOneWrite
  <2>1. B!Junk \notin got[u]
    BY DEF BufInv, JunkInv
  <2>2. ASSUME call[u] # Idle, call[u].op = "read", call[u].alone
        PROVE  \A a, b \in got[u] : a = b \/ B!Zero \in {a, b}
    <3>1. /\ ~mixed /\ \A v \in Users : ~B!Writing(v)
          /\ got[u] \subseteq {mem[j] : j \in Block}
      BY <2>2 DEF BufInv, TurnInv, Reading
    <3>2. PICK w : One(w)
      BY <3>1 DEF BufInv, TurnInv, Writers
    <3> QED BY <2>1, <3>1, <3>2 DEF One
  <2> QED BY <2>1, <2>2
<1> QED BY <1>1, <1>2, <1>3, PTL DEF Spec

----------------------------------------------------------------------------
(* While the text is not to be had, a process that has had it is still     *)
(* there, and will turn len round when it reads on.                        *)
OneLeft ==
  /\ cat \in [Users -> E!CatStates]
  /\ ~quit /\ ~len => \E c \in fed : c \in Users /\ cat[c] # "out"

\* Each open, read and close of the entry keeps such a process.
LEMMA OneLeftStep == OneLeft /\ [Next]_vars => OneLeft'
<1> SUFFICES ASSUME OneLeft, [Next]_vars PROVE OneLeft'
  OBVIOUS
<1> USE DEF OneLeft, E!CatStates
<1>1. ASSUME NEW c \in Users, E!OpenProc(c) PROVE OneLeft'
  BY <1>1 DEF E!OpenProc
<1>2. ASSUME NEW c \in Users, E!TestLen(c) PROVE OneLeft'
  BY <1>2 DEF E!TestLen
<1>3. ASSUME NEW c \in Users, E!ReadText(c) PROVE OneLeft'
  BY <1>3 DEF E!ReadText
<1>4. ASSUME NEW c \in Users, E!ReadEnd(c) PROVE OneLeft'
  BY <1>4 DEF E!ReadEnd
<1>5. ASSUME NEW c \in Users, E!Quit(c) PROVE OneLeft'
  BY <1>5 DEF E!Quit
<1>6. CASE UNCHANGED entry
  BY <1>6 DEF entry
<1> QED BY <1>1, <1>2, <1>3, <1>4, <1>5, <1>6 DEF Next, vars, E!Next

(* When nobody is reading, the next reader gets the text.                  *)
THEOREM RewoundWhenQuiet == Spec => []QuietMeansRewound
<1>1. Init => OneLeft
  BY DEF Init, E!Init, OneLeft, E!CatStates
<1>2. OneLeft => QuietMeansRewound
  BY DEF OneLeft, QuietMeansRewound
<1> QED BY <1>1, <1>2, OneLeftStep, PTL DEF Spec

----------------------------------------------------------------------------
(* The pin is an output from the first led_init on, for no copy of OE that *)
(* still has it as an input is on its way back.                            *)
SetUp == \/ done \/ lit # Nothing
         \/ \E p \in Users : in[p] \in {"flag", "data", "write"}

LedTypes ==
  /\ in \in [Users -> L!Steps] /\ reg \in [Users -> SUBSET Pins]
  /\ want \in [Users -> BOOLEAN \cup {Nothing}]
  /\ lit \in BOOLEAN \cup {Nothing}
  /\ oe \subseteq Pins /\ otherOe \subseteq Pins /\ latch \subseteq Pins

LedInv ==
  /\ LedTypes
  /\ \A p \in Users : in[p] = "write" => want[p] # Nothing
  /\ lit = TRUE => Led \in latch
  /\ lit = FALSE => Led \notin latch
  /\ ~clash /\ SetUp => Led \notin oe
  /\ \A p \in Users : in[p] = "oe" => Led \notin reg[p]
  /\ ~clash /\ other = "oe" =>
       /\ \A p \in Users : in[p] # "oe"
       /\ SetUp => Led \notin otherOe

\* Each access of the LED driver and of the rest of the kernel keeps it.
LEMMA LedStep == LedInv /\ [Next]_vars => LedInv'
<1> SUFFICES ASSUME LedInv, [Next]_vars PROVE LedInv'
  OBVIOUS
<1> USE LedAssumption DEF LedInv, LedTypes, SetUp, L!To, L!Steps
<1>1. ASSUME NEW p \in Users, L!Call(p) PROVE LedInv'
  BY <1>1 DEF L!Call
<1>2. ASSUME NEW p \in Users, L!ReadOe(p) PROVE LedInv'
  BY <1>2 DEF L!ReadOe
<1>3. ASSUME NEW p \in Users, L!WriteOe(p) PROVE LedInv'
  BY <1>3 DEF L!WriteOe
<1>4. ASSUME NEW p \in Users, L!SetDone(p) PROVE LedInv'
  BY <1>4 DEF L!SetDone
<1>5. ASSUME NEW p \in Users, L!Refuse(p) PROVE LedInv'
  BY <1>5 DEF L!Refuse
<1>6. ASSUME NEW p \in Users, L!ReadData(p) PROVE LedInv'
  BY <1>6 DEF L!ReadData, L!DataIn
<1>7. ASSUME NEW p \in Users, L!WriteData(p) PROVE LedInv'
  BY <1>7 DEF L!WriteData
<1>8. CASE L!OtherReads
  BY <1>8 DEF L!OtherReads, L!Busy
<1>9. CASE L!OtherTurns
  BY <1>9 DEF L!OtherTurns
<1>10. CASE L!OtherDrives
  BY <1>10 DEF L!OtherDrives
<1>11. CASE UNCHANGED led
  BY <1>11 DEF led
<1> QED BY <1>1, <1>2, <1>3, <1>4, <1>5, <1>6, <1>7, <1>8, <1>9, <1>10, <1>11
        DEF Next, vars, L!Next

(* What led_show reads is what led_store wrote last.                       *)
THEOREM ShowFollowsStore == Spec => []ShowTellsStore
<1>1. Init => LedInv
  BY LedAssumption DEF Init, L!Init, LedInv, LedTypes, SetUp, L!Steps
<1>2. LedInv => ShowTellsStore
  BY LedAssumption DEF LedInv, LedTypes, SetUp, ShowTellsStore, L!DataIn
<1> QED BY <1>1, <1>2, LedStep, PTL DEF Spec
=============================================================================
