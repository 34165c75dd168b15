--------------------------- MODULE IpMemoryProofs ---------------------------
(***************************************************************************)
(* Theorems about what the programs of nhap/ip keep in memory: a client's  *)
(* list on the heap, for any heap and any number of signals (it is whole,  *)
(* no freed node is touched, and it implements ListSpec), and the shared   *)
(* address of a MAC, for any number of clients and commands.  The two have *)
(* no state in common.                                                     *)
(***************************************************************************)
EXTENDS DllProps, IpStoreProps, SequenceTheorems, FiniteSetTheorems,
        WellFoundedInduction, TLAPS

----------------------------------------------------------------------------
(* The list.  It is whole between two messages, and no operation that was  *)
(* not interrupted touches a freed node.  The invariant says which links   *)
(* each step of append and del has already repaired.                       *)

(* append before its third pointer write: the node hangs between the last  *)
(* node of S and the head, and only the last node does not know it yet.    *)
HalfLinked(S) ==
  /\ S \subseteq live /\ head \in S /\ tail \in S /\ node \in live \ S
  /\ next[node] = head /\ prev[node] = tail /\ next[tail] = head /\ prev[head] = node
  /\ \A n \in S : /\ next[n] \in S
                  /\ n # tail => prev[next[n]] = n
                  /\ n # head => prev[n] \in S /\ next[prev[n]] = n

(* del before its second pointer write: the node is out of the forward     *)
(* links, and only its successor still points back to it.                  *)
HalfUnlinked(S) ==
  /\ S \subseteq live /\ head \in S /\ node \in live \ S
  /\ next[node] \in S /\ prev[node] \in S
  /\ next[prev[node]] = next[node] /\ prev[next[node]] = node
  /\ tail = prev[head]
  /\ \A n \in S : /\ next[n] \in S
                  /\ n # prev[node] => prev[next[n]] = n
                  /\ n # next[node] => prev[n] \in S /\ next[prev[n]] = n

(* IsRing does not say that S is one ring.  It need not: a node that is    *)
(* alone in a ring of its own is deleted without any other link changing.  *)
(* (OneRing below says it, for the refinement.)                            *)
Alone(S) == IsList(S) /\ node \in live \ S /\ next[node] = node /\ prev[node] = node

(* What holds of the nodes S of the list at each step of process_sync_mesg *)
Shape(S) ==
  CASE pc \in {"idle", "alloc"}  -> IsList(S)
    [] pc \in {"find", "check"}  -> IsList(S) /\ node \in S
    [] pc = "headprev" -> IsList(S) /\ node \in live \ S /\ next[node] = head /\ prev[node] = tail
    [] pc = "tailnext" -> HalfLinked(S)
    [] pc = "settail"  -> IsRing(S) /\ node \in S /\ prev[head] = node
    [] pc = "prevnext" -> IsList(S) /\ node \in S \ {head}
    [] pc = "nextprev" -> HalfUnlinked(S) \/ Alone(S)
    [] pc = "fixtail"  -> /\ IsRing(S) /\ node \in live \ S
                          /\ prev[head] = IF node = tail THEN prev[node] ELSE tail
    [] pc = "free"     -> IsList(S) /\ node \in live \ S
    [] OTHER -> TRUE

(* What the handler has still to walk: from hcur to the head, on a path    *)
(* that it does not disturb, because the node before it is the head, or    *)
(* the node that a half-done del has taken out.                            *)
Rest(R) ==
  /\ R \subseteq live /\ hcur \in R /\ head \in R /\ prev[hcur] \in live
  /\ prev[hcur] \notin R \ {head}
  /\ \A n \in R \ {head} :
       next[n] \in R \ {hcur} /\ \A m \in R \ {head} : next[m] = next[n] => m = n

DInv ==
  /\ TypeOK
  /\ pc = "undefined" => stale
  /\ Interrupted /\ ~stale => pc = "idle"
  /\ ~Interrupted => \E S \in SUBSET Cell : IF stale THEN IsList(S) ELSE Shape(S)
  /\ Interrupted => \E R \in SUBSET Cell : hcur # head => Rest(R)

(* The dummy of init_dll is a list by itself.                              *)
LEMMA DInit == Init => DInv
<1> SUFFICES ASSUME Init PROVE DInv
  OBVIOUS
<1> USE NilAssumption, FlushAssumption
<1>1. PICK d \in Cell : live = {d} /\ next = [c \in Cell |-> IF c = d THEN d ELSE Nil]
                        /\ prev = next /\ head = d /\ tail = d
  BY DEF Init
<1>2. next \in [Cell -> Cell \cup {Nil}] /\ next[d] = d
  BY <1>1
<1>3. TypeOK
  <2>1. live \subseteq Cell /\ head \in live /\ tail \in Cell /\ prev \in [Cell -> Cell \cup {Nil}]
    BY <1>1, <1>2
  <2>2. pc \in MainStates /\ node \in Cell \cup {Nil} /\ hcur \in Cell \cup {Nil}
        /\ stale \in BOOLEAN /\ pc = "idle" /\ stale = FALSE
    BY DEF Init, MainStates
  <2>3. flushes \in 0 .. MaxFlush
    BY DEF Init
  <2> QED BY <1>2, <2>1, <2>2, <2>3 DEF TypeOK
<1>4. IsList({d})
  BY <1>1, <1>2 DEF IsList, IsRing
<1>5. pc = "idle" /\ ~stale /\ ~Interrupted
  BY DEF Init, Interrupted
<1>6. Shape({d})
  BY <1>4, <1>5 DEF Shape
<1> QED BY <1>1, <1>3, <1>5, <1>6 DEF DInv

(* Begin, Advance, Hit, Miss and Checked change no link.                   *)
LEMMA SearchStep ==
  ASSUME DInv, NEW S \in SUBSET Cell, Shape(S), ~Interrupted, ~stale,
         Begin \/ Advance("find") \/ Advance("check") \/ Hit \/ Miss \/ Checked
  PROVE  TypeOK' /\ Shape(S)'
<1> USE NilAssumption DEF DInv, TypeOK, Shape, IsList, IsRing, Main, MainStates, heap, ends, ctl
<1>1. CASE Begin
  BY <1>1 DEF Begin
<1>2. CASE Advance("find")
  BY <1>2 DEF Advance
<1>3. CASE Advance("check")
  BY <1>3 DEF Advance
<1>4. CASE Hit
  BY <1>4 DEF Hit
<1>5. CASE Miss
  BY <1>5 DEF Miss
<1>6. CASE Checked
  BY <1>6 DEF Checked
<1> QED BY <1>1, <1>2, <1>3, <1>4, <1>5, <1>6

(* append: each write repairs one link, and the last makes S a list again. *)
LEMMA AppendStep ==
  ASSUME DInv, NEW S \in SUBSET Cell, Shape(S), ~Interrupted, ~stale,
         Alloc \/ HeadPrev \/ TailNext \/ SetTail
  PROVE  /\ TypeOK'
         /\ \E T \in SUBSET Cell : Shape(T)' /\ T = IF pc = "tailnext" THEN S \cup {node} ELSE S
<1> USE NilAssumption DEF DInv, TypeOK, Main, MainStates, heap, ends, ctl
<1>1. CASE Alloc
  <2>1. PICK c \in Cell \ live :
          /\ node' = c /\ live' = live \cup {c}
          /\ next' = [next EXCEPT ![c] = head] /\ prev' = [prev EXCEPT ![c] = tail]
    BY <1>1 DEF Alloc, Calloc
  <2>2. TypeOK'
    BY <1>1, <2>1 DEF Alloc, Calloc
  <2>3. Shape(S)'
    BY <1>1, <2>1 DEF Alloc, Calloc, Shape, IsList, IsRing
  <2>4. pc = "alloc"
    BY <1>1 DEF Alloc, Calloc
  <2> QED BY <2>2, <2>3, <2>4
<1>2. CASE HeadPrev
  <2>1. TypeOK' /\ HalfLinked(S)'
    BY <1>2 DEF HeadPrev, Shape, IsList, IsRing, HalfLinked
  <2>2. Shape(S)' /\ pc = "headprev"
    BY <1>2, <2>1 DEF HeadPrev, Shape
  <2> QED BY <2>1, <2>2
<1>3. CASE TailNext
  <2> DEFINE T == S \cup {node}
  <2>1. HalfLinked(S)
    BY <1>3 DEF TailNext, Shape
  <2>2. TypeOK' /\ IsRing(T)' /\ node' \in T /\ prev'[head'] = node'
    BY <1>3, <2>1 DEF TailNext, HalfLinked, IsRing
  <2>3. Shape(T)'
    BY <1>3, <2>2 DEF TailNext, Shape
  <2>4. T \in SUBSET Cell /\ pc = "tailnext"
    BY <1>3, <2>1 DEF HalfLinked, TailNext
  <2>5. PICK Q \in SUBSET Cell : Q = S \cup {node}
    BY <2>4
  <2>6. node' = node
    BY <1>3 DEF TailNext
  <2>7. Shape(Q)'
    BY <2>3, <2>5, <2>6
  <2> QED BY <2>2, <2>4, <2>5, <2>7
<1>4. CASE SetTail
  <2>1. TypeOK' /\ Shape(S)'
    BY <1>4 DEF SetTail, Shape, IsList, IsRing
  <2>2. pc = "settail"
    BY <1>4 DEF SetTail
  <2> QED BY <2>1, <2>2
<1> QED BY <1>1, <1>2, <1>3, <1>4

(* del: the node leaves S with the first write, the second closes the ring *)
(* without it, and then tail and heap follow.                              *)
LEMMA DelStep ==
  ASSUME DInv, NEW S \in SUBSET Cell, Shape(S), ~Interrupted, ~stale,
         PrevNext \/ NextPrev \/ FixTail \/ Free
  PROVE  /\ TypeOK'
         /\ \E T \in SUBSET Cell : Shape(T)' /\ T = IF pc = "prevnext" THEN S \ {node} ELSE S
<1> USE NilAssumption DEF DInv, TypeOK, Main, MainStates, heap, ends, ctl
<1>1. CASE PrevNext
  <2> DEFINE T == S \ {node}
  <2>1. IsList(S) /\ node \in S \ {head}
    BY <1>1 DEF PrevNext, Shape
  <2>2. /\ next' = [next EXCEPT ![prev[node]] = next[node]] /\ UNCHANGED <<live, prev, ends, node>>
        /\ prev[node] \in Cell /\ pc' = "nextprev" /\ TypeOK'
    BY <1>1, <2>1 DEF PrevNext, IsList, IsRing
  <2>a. T \in SUBSET Cell /\ pc = "prevnext"
    BY <1>1 DEF PrevNext
  <2>3. CASE next[node] = node
    <3>1. prev[node] = node /\ next' = next
      BY <2>1, <2>2, <2>3 DEF IsList, IsRing
    <3>2. Alone(T)'
      BY <2>1, <2>2, <2>3, <3>1 DEF IsList, IsRing, Alone
    <3>3. Shape(T)'
      BY <2>2, <3>2 DEF Shape
    <3> QED BY <2>2, <2>a, <3>3
  <2>4. CASE next[node] # node
    <3>1. /\ next[node] \in T /\ prev[node] \in T /\ prev[next[node]] = node
          /\ next[prev[node]] = node /\ T \subseteq live /\ node \in live
      BY <2>1, <2>4 DEF IsList, IsRing
    <3>2. \A n \in T : /\ next'[n] \in T
                       /\ n # prev[node] => prev[next'[n]] = n
                       /\ n # next[node] => prev[n] \in T /\ next'[prev[n]] = n
      BY <2>1, <2>2, <3>1 DEF IsList, IsRing
    <3>3. HalfUnlinked(T)'
      BY <2>1, <2>2, <3>1, <3>2 DEF IsList, IsRing, HalfUnlinked
    <3>4. Shape(T)'
      BY <2>2, <3>3 DEF Shape
    <3> QED BY <2>2, <2>a, <3>4
  <2> QED BY <2>2, <2>3, <2>4
<1>2. CASE NextPrev
  <2>1. HalfUnlinked(S) \/ Alone(S)
    BY <1>2 DEF NextPrev, Shape
  <2>2. TypeOK' /\ IsRing(S)' /\ node' \in (live \ S)'
    BY <1>2, <2>1 DEF NextPrev, HalfUnlinked, Alone, IsList, IsRing
  <2>3. prev'[head'] = IF node' = tail' THEN prev'[node'] ELSE tail'
    BY <1>2, <2>1 DEF NextPrev, HalfUnlinked, Alone, IsList, IsRing
  <2>4. Shape(S)' /\ pc = "nextprev"
    BY <1>2, <2>2, <2>3 DEF NextPrev, Shape
  <2> QED BY <2>2, <2>4
<1>3. CASE FixTail
  <2>1. TypeOK' /\ Shape(S)'
    BY <1>3 DEF FixTail, Shape, IsList, IsRing
  <2>2. pc = "fixtail"
    BY <1>3 DEF FixTail
  <2> QED BY <2>1, <2>2
<1>4. CASE Free
  <2>1. TypeOK' /\ Shape(S)'
    BY <1>4 DEF Free, Shape, IsList, IsRing
  <2>2. pc = "free"
    BY <1>4 DEF Free
  <2> QED BY <2>1, <2>2
<1> QED BY <1>1, <1>2, <1>3, <1>4

(* Wherever a signal arrives, the links from the head on are a path that   *)
(* the handler can delete from its start.                                  *)
LEMMA SignalStep == ASSUME DInv, Signal PROVE DInv'
<1> USE NilAssumption, FlushAssumption DEF ends, heap
<1>1. /\ ~Interrupted /\ pc # "undefined" /\ hcur' = next[head] /\ flushes' = flushes + 1
      /\ stale' = (stale \/ pc # "idle") /\ UNCHANGED <<heap, ends, pc, node>> /\ flushes < MaxFlush
  BY DEF Signal
<1>2. PICK S \in SUBSET Cell : IF stale THEN IsList(S) ELSE Shape(S)
  BY <1>1 DEF DInv
<1>3. S \subseteq live /\ head \in S /\ \A n \in S : next[n] \in S
  BY <1>1, <1>2 DEF DInv, TypeOK, Shape, MainStates, IsList, IsRing, HalfLinked, HalfUnlinked, Alone
<1>4. \A n \in S, m \in S : next[m] = next[n] => m = n
  BY <1>1, <1>2 DEF DInv, TypeOK, Shape, MainStates, IsList, IsRing, HalfLinked, HalfUnlinked, Alone
<1>5. next[head] # head => prev[next[head]] \in live /\ prev[next[head]] \notin S \ {head}
  BY <1>1, <1>2 DEF DInv, TypeOK, Shape, MainStates, IsList, IsRing, HalfLinked, HalfUnlinked, Alone
<1>6. hcur' # head' => Rest(S)'
  BY <1>1, <1>3, <1>4, <1>5 DEF Rest
<1>7. TypeOK' /\ Interrupted'
  BY <1>1, <1>3 DEF DInv, TypeOK, Interrupted
<1> QED BY <1>1, <1>6, <1>7 DEF DInv

(* One turn of deinit_dll's loop leaves the rest of the path as it was.    *)
LEMMA DeinitStep == ASSUME DInv, HandlerDel PROVE DInv'
<1> USE NilAssumption
<1>1. PICK R \in SUBSET Cell : Rest(R)
  BY DEF DInv, HandlerDel
<1> DEFINE T == R \ {hcur}
<1>2. hcur # head /\ head' = head /\ hcur' = next[hcur] /\ live' = live \ {hcur}
  BY DEF HandlerDel
<1>3. /\ next' = [next EXCEPT ![prev[hcur]] = next[hcur]]
      /\ prev' = [prev EXCEPT ![next[hcur]] = prev[hcur]]
      /\ tail' = IF hcur = tail THEN prev[hcur] ELSE tail
      /\ UNCHANGED <<pc, node, stale, flushes>>
  BY DEF HandlerDel
<1>4. next[hcur] \in T /\ prev[hcur] \in live \ {hcur} /\ head \in T /\ T \subseteq live'
  BY <1>1, <1>2 DEF Rest
<1>5. TypeOK' /\ Interrupted'
  BY <1>2, <1>3, <1>4 DEF DInv, TypeOK, Interrupted
<1>6. prev'[hcur'] = prev[hcur]
  BY <1>2, <1>3, <1>4 DEF DInv, TypeOK
<1>7. \A n \in T \ {head} : next'[n] = next[n]
  BY <1>1, <1>2, <1>3, <1>4 DEF DInv, TypeOK, Rest
<1>8. \A n \in T \ {head} :
        next'[n] \in T \ {hcur'} /\ \A m \in T \ {head} : next'[m] = next'[n] => m = n
  BY <1>1, <1>2, <1>7 DEF Rest
<1>9. \E Q \in SUBSET Cell : Rest(Q)'
  <2>1. prev'[hcur'] \in live' /\ prev'[hcur'] \notin T \ {head'}
    BY <1>1, <1>2, <1>4, <1>6 DEF Rest
  <2>2. T \subseteq live' /\ hcur' \in T /\ head' \in T
    BY <1>2, <1>4
  <2>3. PICK Q \in SUBSET Cell : Q = T
    OBVIOUS
  <2>4. Rest(Q)'
    BY <1>2, <1>8, <2>1, <2>2, <2>3 DEF Rest
  <2> QED BY <2>4
<1>10. Interrupted
  BY DEF HandlerDel
<1> QED BY <1>3, <1>5, <1>9, <1>10 DEF DInv

(* init_dll ends the handler with a fresh list, whatever it interrupted.   *)
LEMMA ReinitStep == ASSUME DInv, HandlerInit PROVE DInv'
<1> USE NilAssumption
<1>1. PICK d \in Cell \ live :
        /\ live' = live \cup {d} /\ head' = d /\ tail' = d
        /\ next' = [next EXCEPT ![d] = d] /\ prev' = [prev EXCEPT ![d] = d]
  BY DEF HandlerInit
<1>2. hcur' = Nil /\ UNCHANGED <<pc, node, stale, flushes>>
  BY DEF HandlerInit
<1>3. TypeOK' /\ ~Interrupted'
  BY <1>1, <1>2 DEF DInv, TypeOK, Interrupted
<1>4. IsList({d})'
  BY <1>1 DEF DInv, TypeOK, IsList, IsRing
<1>5. ~stale => pc = "idle"
  BY DEF HandlerInit, DInv
<1> QED BY <1>1, <1>2, <1>3, <1>4, <1>5 DEF DInv, Shape

(* Every action keeps the invariant.                                       *)
LEMMA DStep == DInv /\ [Next]_vars => DInv'
<1> SUFFICES ASSUME DInv, [Next]_vars PROVE DInv'
  OBVIOUS
<1>1. CASE Signal \/ HandlerDel \/ HandlerInit
  BY <1>1, SignalStep, DeinitStep, ReinitStep
<1>a. CASE UseFreed
  BY <1>a DEF UseFreed, DInv, TypeOK, MainStates, IsList, IsRing, Interrupted, heap, ends, ctl
<1>2. CASE UNCHANGED vars
  BY <1>2 DEF DInv, TypeOK, Shape, IsList, IsRing, HalfLinked, HalfUnlinked, Alone, Interrupted,
              Rest,
              vars, heap, ends, ctl
<1>3. ASSUME ~Interrupted, ~stale,
             \/ Begin \/ Advance("find") \/ Advance("check") \/ Hit \/ Miss \/ Checked
             \/ Alloc \/ HeadPrev \/ TailNext \/ SetTail
             \/ PrevNext \/ NextPrev \/ FixTail \/ Free
      PROVE  DInv'
  <2>1. PICK S \in SUBSET Cell : Shape(S)
    BY <1>3 DEF DInv
  <2>2. UNCHANGED ctl /\ pc' # "undefined"
    BY <1>3 DEF Main, Begin, Advance, Hit, Miss, Checked, Alloc, Calloc, HeadPrev, TailNext, SetTail,
       PrevNext, NextPrev, FixTail, Free
  <2>3. TypeOK' /\ \E T \in SUBSET Cell : Shape(T)'
    BY <1>3, <2>1, SearchStep, AppendStep, DelStep
  <2> QED BY <1>3, <2>2, <2>3 DEF DInv, Interrupted, ctl
<1>4. QED
  BY <1>1, <1>a, <1>2, <1>3 DEF Next, Main, Begin, Advance, Hit, Miss, Checked, Alloc, Calloc, HeadPrev,
     TailNext, SetTail, PrevNext, NextPrev, FixTail, Free

(* Between two messages the client's list is a ring with the right tail,   *)
(* whatever operations and flushes came before.                            *)
THEOREM ListLinked == Spec => []Linked
<1>1. DInv => Linked
  <2> SUFFICES ASSUME DInv, pc = "idle", ~Interrupted PROVE \E S \in SUBSET live : IsList(S)
    BY DEF Linked
  <2>1. PICK S \in SUBSET Cell : Shape(S)
    BY DEF DInv, TypeOK
  <2>2. IsList(S)
    BY <2>1 DEF Shape
  <2> QED BY <2>2 DEF IsList, IsRing
<1> QED BY <1>1, DInit, DStep, PTL DEF Spec

(* An operation of the list touches only allocated nodes unless a signal   *)
(* interrupted it.                                                         *)
THEOREM OperationsSafe == Spec => []MainSafe
<1>1. DInv => MainSafe
  <2> SUFFICES ASSUME DInv, ~Interrupted, ~stale PROVE Touched \subseteq live
    BY DEF MainSafe
  <2>1. PICK S \in SUBSET Cell : Shape(S)
    BY DEF DInv
  <2> QED
    BY <2>1 DEF DInv, TypeOK, Shape, IsList, IsRing, HalfLinked, HalfUnlinked, Alone,
        Touched, MainStates
<1> QED BY <1>1, DInit, DStep, PTL DEF Spec

(* The handler never touches a freed node, wherever it interrupts append   *)
(* or del.                                                                 *)
THEOREM HandlerCorrect == Spec => []HandlerSafe
<1>1. DInv => HandlerSafe
  BY DEF DInv, HandlerSafe, Rest
<1> QED BY <1>1, DInit, DStep, PTL DEF Spec

----------------------------------------------------------------------------
(* The list implements ListSpec: the nodes of Shape are one ring from the  *)
(* head on, and each step adds to its end, cuts one out, or leaves it.     *)

(* A set of numbers that is not empty has a least element.                 *)
LEMMA LeastOf ==
  ASSUME NEW R, IsWellFoundedOn(R, Nat), \A x, y \in Nat : y < x => <<y, x>> \in R,
         NEW T \in SUBSET Nat, T # {}
  PROVE  \E x \in T : \A y \in T : x <= y
<1>1. PICK x \in T : \A y \in T : ~ (<<y, x>> \in R)
  BY WFMin
<1>2. \A y \in T : ~ (y < x)
  BY <1>1
<1> QED BY <1>2

(* Induction over the naturals in the form the provers can use: about a    *)
(* set and not about an operator.                                          *)
LEMMA SetInduction ==
  ASSUME NEW S \in SUBSET Nat, 0 \in S, \A n \in S : n + 1 \in S
  PROVE  S = Nat
<1> SUFFICES ASSUME S # Nat PROVE FALSE
  OBVIOUS
<1>1. IsWellFoundedOn(OpToRel(<, Nat), Nat)
  BY NatLessThanWellFounded
<1>2. \A x, y \in Nat : y < x => <<y, x>> \in OpToRel(<, Nat)
  BY DEF OpToRel
<1>3. PICK x \in Nat \ S : \A y \in Nat \ S : x <= y
  BY <1>1, <1>2, LeastOf
<1>4. x # 0 /\ x - 1 \in Nat
  BY <1>3
<1>5. x - 1 \in S
  BY <1>3, <1>4
<1> QED BY <1>3, <1>5

(* RemoveAt on indices: what precedes i stays, what follows moves down.    *)
LEMMA RemoveAtIndices ==
  ASSUME NEW S, NEW t \in Seq(S), NEW i \in 1 .. Len(t)
  PROVE  /\ List!RemoveAt(t, i) \in Seq(S)
         /\ Len(List!RemoveAt(t, i)) = Len(t) - 1
         /\ \A j \in 1 .. Len(t) - 1 :
              List!RemoveAt(t, i)[j] = IF j < i THEN t[j] ELSE t[j + 1]
<1> DEFINE a == SubSeq(t, 1, i - 1)
           b == SubSeq(t, i + 1, Len(t))
<1>1. a \in Seq(S) /\ Len(a) = i - 1 /\ \A j \in 1 .. i - 1 : a[j] = t[j]
  BY SubSeqProperties
<1>2. /\ b \in Seq(S) /\ Len(b) = Len(t) - i
      /\ \A j \in 1 .. Len(t) - i : b[j] = t[i + j]
  <2>1. CASE i = Len(t)
    BY <2>1, EmptySeq, SubSeqProperties
  <2>2. CASE i < Len(t)
    BY <2>2, SubSeqProperties
  <2> QED BY <2>1, <2>2
<1>3. List!RemoveAt(t, i) = a \o b
  BY DEF List!RemoveAt
<1> HIDE DEF a, b
<1>4. /\ a \o b \in Seq(S) /\ Len(a \o b) = Len(a) + Len(b)
      /\ \A j \in 1 .. Len(a) + Len(b) :
           (a \o b)[j] = IF j <= Len(a) THEN a[j] ELSE b[j - Len(a)]
  BY <1>1, <1>2, ConcatProperties
<1>5. Len(t) \in Nat /\ i \in Nat /\ Len(a) + Len(b) = Len(t) - 1
  BY <1>1, <1>2, LenProperties
<1>6. ASSUME NEW j \in 1 .. Len(t) - 1
      PROVE  (a \o b)[j] = IF j < i THEN t[j] ELSE t[j + 1]
  <2>1. (a \o b)[j] = IF j <= Len(a) THEN a[j] ELSE b[j - Len(a)]
    BY <1>4, <1>5
  <2>2. CASE j < i
    BY <1>1, <1>5, <2>1, <2>2
  <2>3. CASE j >= i
    <3>1. j - Len(a) \in 1 .. Len(t) - i /\ i + (j - Len(a)) = j + 1
      BY <1>1, <1>5, <2>3
    <3> QED BY <1>1, <1>2, <1>5, <2>1, <2>3, <3>1
  <2> QED BY <1>5, <2>2, <2>3
<1> QED BY <1>3, <1>4, <1>5, <1>6

(* nx leads from each cell of R to another, and w follows it N times.      *)
StaysIn(R, nx) == \A r \in R : nx[r] \in R
Follows(w, h, nx, N) == \A k \in 0 .. N : w[k] = IF k = 0 THEN h ELSE nx[w[k - 1]]

(* The ring n steps long: p lists the head h and then the nodes.           *)
Rings(p, h, nx, n) ==
  p[0] = h /\ nx[p[n]] = h /\ \A i \in 1 .. n : nx[p[i - 1]] = p[i]

(* w goes round the ring once.                                             *)
GoesRound(w, p, h, n) == w[n + 1] = h /\ \A i \in 0 .. n : w[i] = p[i]

Path(n, p) == Rings(p, head, next, n) /\ \A i, j \in 0 .. n : p[i] = p[j] => i = j

OneRing(S) ==
  \E n \in Nat : \E p \in [0 .. n -> Cell] : Path(n, p) /\ S = {p[i] : i \in 0 .. n}

Listed(n, p) == [i \in 1 .. n |-> p[i]]

(* From h on, nx can be followed as often as one likes inside R.           *)
LEMMA WalkExists ==
  ASSUME NEW R, NEW h \in R, NEW nx, StaysIn(R, nx), NEW N \in Nat
  PROVE  \E f \in [0 .. N -> R] : Follows(f, h, nx, N)
<1> DEFINE S == {m \in Nat : \E f \in [0 .. m -> R] : Follows(f, h, nx, m)}
<1>1. 0 \in S
  <2> DEFINE f == [i \in 0 .. 0 |-> h]
  <2>1. f \in [0 .. 0 -> R] /\ Follows(f, h, nx, 0)
    BY DEF Follows
  <2> QED BY <2>1
<1>2. ASSUME NEW m \in S PROVE m + 1 \in S
  <2>1. m \in Nat
    OBVIOUS
  <2>2. PICK f \in [0 .. m -> R] : Follows(f, h, nx, m)
    OBVIOUS
  <2> DEFINE g == [i \in 0 .. m + 1 |-> IF i <= m THEN f[i] ELSE nx[f[m]]]
  <2>3. f[m] \in R /\ nx[f[m]] \in R
    BY <2>1 DEF StaysIn
  <2>4. g \in [0 .. m + 1 -> R]
    BY <2>1, <2>3
  <2>5. g[m + 1] = nx[f[m]] /\ \A i \in 0 .. m : g[i] = f[i]
    BY <2>1, <2>2
  <2> HIDE DEF g
  <2>6. ASSUME NEW k \in 0 .. m + 1 PROVE g[k] = IF k = 0 THEN h ELSE nx[g[k - 1]]
    <3>1. CASE k = m + 1
      <4>1. k - 1 = m /\ m \in 0 .. m /\ k # 0
        BY <2>1, <3>1
      <4> QED BY <2>5, <3>1, <4>1
    <3>2. CASE k # m + 1
      <4>1. k \in 0 .. m /\ (k # 0 => k - 1 \in 0 .. m)
        BY <2>1, <3>2
      <4>2. f[k] = IF k = 0 THEN h ELSE nx[f[k - 1]]
        BY <2>2, <4>1 DEF Follows
      <4> QED BY <2>5, <4>1, <4>2
    <3> QED BY <3>1, <3>2
  <2>7. Follows(g, h, nx, m + 1)
    BY <2>6 DEF Follows
  <2> QED BY <2>1, <2>4, <2>7
<1>3. S = Nat
  <2>1. S \in SUBSET Nat
    OBVIOUS
  <2> HIDE DEF S
  <2> QED BY <1>1, <1>2, <2>1, SetInduction
<1> QED BY <1>3

(* So a function that is defined by following nx is defined.               *)
LEMMA WalkDefined ==
  ASSUME NEW R, NEW h \in R, NEW nx, StaysIn(R, nx), NEW N \in Nat
  PROVE  Follows(CHOOSE g : g = [k \in 0 .. N |-> IF k = 0 THEN h ELSE nx[g[k - 1]]], h, nx, N)
<1> DEFINE G(g) == g = [k \in 0 .. N |-> IF k = 0 THEN h ELSE nx[g[k - 1]]]
           w == CHOOSE g : G(g)
<1>1. PICK f \in [0 .. N -> R] : Follows(f, h, nx, N)
  BY WalkExists
<1>2. G(f)
  BY <1>1 DEF Follows
<1>3. G(w)
  <2> HIDE DEF G
  <2> QED BY <1>2
<1> HIDE DEF w
<1>4. Follows(w, h, nx, N)
  BY <1>3 DEF Follows
<1> HIDE DEF G
<1> QED BY <1>4 DEF w, G

(* What follows nx as often as the ring is long goes round the ring.       *)
LEMMA WalkIs ==
  ASSUME NEW h, NEW nx, NEW N \in Nat, NEW n \in Nat, n + 1 <= N,
         NEW p \in [0 .. n -> Cell], Rings(p, h, nx, n), NEW w, Follows(w, h, nx, N)
  PROVE  GoesRound(w, p, h, n)
<1>5. \A k \in 0 .. N : w[k] = IF k = 0 THEN h ELSE nx[w[k - 1]]
  BY DEF Follows
<1>a. p[0] = h /\ nx[p[n]] = h /\ \A i \in 1 .. n : nx[p[i - 1]] = p[i]
  BY DEF Rings
<1> DEFINE S == {i \in Nat : i \in 0 .. n => w[i] = p[i]}
<1>6. 0 \in S
  BY <1>5, <1>a
<1>7. ASSUME NEW i \in S PROVE i + 1 \in S
  <2> SUFFICES ASSUME i + 1 \in 0 .. n PROVE w[i + 1] = p[i + 1]
    OBVIOUS
  <2>1. i \in Nat /\ i \in 0 .. n /\ i + 1 \in 1 .. n /\ i + 1 \in 0 .. N /\ i + 1 # 0 /\ (i + 1) - 1 = i
    OBVIOUS
  <2>2. w[i] = p[i]
    BY <2>1
  <2>3. p[i + 1] = nx[p[i]]
    BY <1>a, <2>1
  <2>4. w[i + 1] = nx[w[i]]
    BY <1>5, <2>1
  <2> QED BY <2>2, <2>3, <2>4
<1>8. S = Nat
  <2>1. S \in SUBSET Nat
    OBVIOUS
  <2> HIDE DEF S
  <2> QED BY <1>6, <1>7, <2>1, SetInduction
<1>9. \A i \in 0 .. n : w[i] = p[i]
  BY <1>8
<1>10. w[n + 1] = nx[w[n]]
  <2>1. n + 1 \in 0 .. N /\ n + 1 # 0 /\ (n + 1) - 1 = n
    OBVIOUS
  <2> QED BY <1>5, <2>1
<1> QED BY <1>9, <1>10, <1>a DEF GoesRound

(* A path repeats no cell, so it is not longer than the heap is large.     *)
LEMMA PathShort ==
  ASSUME NEW n \in Nat, NEW p \in [0 .. n -> Cell],
         \A i, j \in 0 .. n : p[i] = p[j] => i = j
  PROVE  Cardinality(Cell) \in Nat /\ n + 1 <= Cardinality(Cell)
<1>1. p \in Injection(0 .. n, Cell)
  BY DEF Injection, IsInjective
<1>2. Cardinality(0 .. n) <= Cardinality(Cell)
  BY <1>1, CellAssumption, FS_Injection
<1>3. Cardinality(0 .. n) = n + 1
  BY FS_Interval
<1>4. Cardinality(Cell) \in Nat
  BY CellAssumption, FS_CardinalityType
<1> QED BY <1>2, <1>3, <1>4

(* The abstract list is the path without the head, now and after a step.   *)
LEMMA NodesArePath ==
  ASSUME NEW n \in Nat, NEW p \in [0 .. n -> Cell]
  PROVE  /\ Path(n, p) /\ ~Interrupted => Nodes = Listed(n, p)
         /\ (Path(n, p) /\ ~Interrupted => Nodes = Listed(n, p))'
<1>1. Path(n, p) /\ ~Interrupted => Nodes = Listed(n, p)
  <2> SUFFICES ASSUME Path(n, p), ~Interrupted PROVE Nodes = Listed(n, p)
    OBVIOUS
  <2> DEFINE N == Cardinality(Cell)
             R == {p[i] : i \in 0 .. n}
             back(k) == Walk[k + 1] = head /\ \A i \in 1 .. k : Walk[i] # head
             len == CHOOSE k \in 0 .. N - 1 : back(k)
  <2>1. N \in Nat /\ n + 1 <= N
    BY PathShort DEF Path
  <2>2. /\ p[0] = head /\ next[p[n]] = head /\ \A i \in 1 .. n : next[p[i - 1]] = p[i]
        /\ \A i \in 1 .. n : p[i] # head
    BY DEF Path, Rings
  <2>3. head \in R /\ StaysIn(R, next)
    <3>1. head \in R
      BY <2>2
    <3>2. ASSUME NEW i \in 0 .. n PROVE next[p[i]] \in R
      <4>1. CASE i = n
        BY <2>2, <3>1, <4>1
      <4>2. CASE i # n
        <5>1. i + 1 \in 1 .. n /\ (i + 1) - 1 = i /\ i + 1 \in 0 .. n
          BY <4>2
        <5>2. next[p[i]] = p[i + 1]
          BY <2>2, <5>1
        <5> QED BY <5>1, <5>2
      <4> QED BY <4>1, <4>2
    <3>3. \A r \in R : \E i \in 0 .. n : r = p[i]
      OBVIOUS
    <3> HIDE DEF R
    <3> QED BY <3>1, <3>2, <3>3 DEF StaysIn
  <2> HIDE DEF N, R
  <2>4. PICK w : w = Walk
    OBVIOUS
  <2>b. Follows(w, head, next, N)
    <3>1. Follows(CHOOSE g : g = [k \in 0 .. N |-> IF k = 0 THEN head ELSE next[g[k - 1]]], head, next, N)
      BY <2>1, <2>3, WalkDefined
    <3> QED BY <2>4, <3>1 DEF Walk, N
  <2>5. w[n + 1] = head /\ \A i \in 0 .. n : w[i] = p[i]
    <3>1. Rings(p, head, next, n)
      BY DEF Path
    <3>2. GoesRound(w, p, head, n)
      BY <2>1, <2>b, <3>1, WalkIs
    <3> QED BY <3>2 DEF GoesRound
  <2>6. Nodes = [i \in 1 .. len |-> w[i]]
    BY <2>4 DEF Nodes, N
  <2>7. back(n) /\ n \in 0 .. N - 1
    BY <2>1, <2>2, <2>4, <2>5
  <2>8. ASSUME NEW k \in 0 .. N - 1, back(k) PROVE k = n
    <3>1. CASE k < n
      <4>1. k + 1 \in 0 .. n /\ k + 1 \in 1 .. n
        BY <3>1
      <4> QED BY <2>2, <2>4, <2>5, <2>8, <4>1
    <3>2. CASE k > n
      <4>1. n + 1 \in 1 .. k
        BY <3>2
      <4> QED BY <2>4, <2>5, <2>8, <4>1
    <3> QED BY <2>1, <3>1, <3>2
  <2> HIDE DEF back
  <2>9. len = n
    BY <2>7, <2>8
  <2> HIDE DEF len
  <2> QED BY <2>5, <2>6, <2>9 DEF Listed
<1> QED BY <1>1, PTL

(* The list of a path has its length and its cells.                        *)
LEMMA ListedTyped ==
  ASSUME NEW n \in Nat, NEW p \in [0 .. n -> Cell]
  PROVE  /\ Listed(n, p) \in Seq(Cell) /\ Len(Listed(n, p)) = n
         /\ \A i \in 1 .. n : Listed(n, p)[i] = p[i]
<1>1. Listed(n, p) \in [1 .. n -> Cell] /\ \A i \in 1 .. n : Listed(n, p)[i] = p[i]
  BY DEF Listed
<1> DEFINE l == Listed(n, p)
<1> HIDE DEF l
<1>2. l \in [1 .. n -> Cell]
  BY <1>1 DEF l
<1>3. l \in Seq(Cell)
  BY <1>2, SeqDef
<1>4. Len(l) = n
  BY <1>2, <1>3, LenProperties
<1> QED BY <1>1, <1>3, <1>4 DEF l

(* The ring stays as it is when no link of its cells is written.           *)
LEMMA RingKept ==
  ASSUME NEW S, OneRing(S), head' = head, \A c \in S : next'[c] = next[c]
  PROVE  OneRing(S)' /\ (~Interrupted /\ ~Interrupted' => Nodes' = Nodes)
<1>0. PICK n \in Nat : \E p \in [0 .. n -> Cell] : Path(n, p) /\ S = {p[i] : i \in 0 .. n}
  BY DEF OneRing
<1>1. PICK p \in [0 .. n -> Cell] : Path(n, p) /\ S = {p[i] : i \in 0 .. n}
  BY <1>0
<1>2. \A i \in 0 .. n : next'[p[i]] = next[p[i]]
  BY <1>1
<1>3. \A i \in 1 .. n : i - 1 \in 0 .. n
  OBVIOUS
<1>4. Path(n, p)'
  BY <1>1, <1>2, <1>3 DEF Path, Rings
<1>5. OneRing(S)'
  BY <1>1, <1>4 DEF OneRing
<1>6. Listed(n, p)' = Listed(n, p)
  BY DEF Listed
<1>7. ~Interrupted /\ ~Interrupted' => Nodes' = Nodes
  BY <1>1, <1>4, <1>6, NodesArePath
<1> QED BY <1>5, <1>7

(* Linking x behind the last cell t appends it to the list.                *)
LEMMA RingGrows ==
  ASSUME NEW S, OneRing(S), NEW t \in S, NEW x \in Cell \ S, NEW Q, Q = S \cup {x},
         next \in [Cell -> Cell \cup {Nil}], next[t] = head, next[x] = head, t \in Cell,
         head' = head, next' = [next EXCEPT ![t] = x], ~Interrupted, ~Interrupted'
  PROVE  OneRing(Q)' /\ x \notin List!ToSet(Nodes) /\ Nodes' = Append(Nodes, x)
<1>0. PICK n \in Nat : \E p \in [0 .. n -> Cell] : Path(n, p) /\ S = {p[i] : i \in 0 .. n}
  BY DEF OneRing
<1>1. PICK p \in [0 .. n -> Cell] : Path(n, p) /\ S = {p[i] : i \in 0 .. n}
  BY <1>0
<1>2. /\ p[0] = head /\ next[p[n]] = head
      /\ \A i \in 1 .. n : next[p[i - 1]] = p[i]
      /\ \A i, j \in 0 .. n : p[i] = p[j] => i = j
  BY <1>1 DEF Path, Rings
<1>3. \A i \in 0 .. n : p[i] \in S
  BY <1>1
<1>4. p[n] = t
  <2>1. PICK j \in 0 .. n : p[j] = t
    BY <1>1
  <2>2. CASE j < n
    <3>1. j + 1 \in 1 .. n /\ (j + 1) - 1 = j /\ 0 \in 0 .. n /\ j + 1 \in 0 .. n /\ j + 1 # 0
      BY <2>2
    <3>2. p[j + 1] = p[0]
      BY <1>2, <2>1, <3>1
    <3> QED BY <1>2, <3>1, <3>2
  <2> QED BY <2>1, <2>2
<1> DEFINE q == [i \in 0 .. n + 1 |-> IF i <= n THEN p[i] ELSE x]
<1>5. q \in [0 .. n + 1 -> Cell]
  OBVIOUS
<1>6. q[n + 1] = x /\ \A i \in 0 .. n : q[i] = p[i]
  OBVIOUS
<1>7. Listed(n + 1, q) = [i \in 1 .. n + 1 |-> IF i <= n THEN p[i] ELSE x]
  BY DEF Listed
<1> HIDE DEF q
<1>8. next'[t] = x /\ next'[x] = head /\ \A i \in 0 .. n : i # n => next'[p[i]] = next[p[i]]
  <2>1. \A i \in 0 .. n : i # n => p[i] # t
    BY <1>2, <1>4
  <2> QED BY <1>3, <2>1
<1>9. \A i \in 1 .. n + 1 : next'[q[i - 1]] = q[i]
  <2> SUFFICES ASSUME NEW i \in 1 .. n + 1 PROVE next'[q[i - 1]] = q[i]
    OBVIOUS
  <2>1. CASE i = n + 1
    <3>1. i - 1 = n /\ n \in 0 .. n
      BY <2>1
    <3> QED BY <1>4, <1>6, <1>8, <2>1, <3>1
  <2>2. CASE i # n + 1
    <3>1. i \in 1 .. n /\ i \in 0 .. n /\ i - 1 \in 0 .. n /\ i - 1 # n
      BY <2>2
    <3> QED BY <1>2, <1>6, <1>8, <3>1
  <2> QED BY <2>1, <2>2
<1>10. \A i, j \in 0 .. n + 1 : q[i] = q[j] => i = j
  <2> SUFFICES ASSUME NEW i \in 0 .. n + 1, NEW j \in 0 .. n + 1, q[i] = q[j] PROVE i = j
    OBVIOUS
  <2>1. \A k \in 0 .. n + 1 : k = n + 1 \/ (k \in 0 .. n /\ q[k] \in S)
    BY <1>3, <1>6
  <2> QED BY <1>2, <1>6, <2>1
<1>11. Path(n + 1, q)'
  <2>1. n + 1 \in Nat /\ 0 \in 0 .. n
    OBVIOUS
  <2>2. q[0] = head' /\ next'[q[n + 1]] = head'
    BY <1>2, <1>6, <1>8, <2>1
  <2> QED BY <1>9, <1>10, <2>2 DEF Path, Rings
<1>12. Q = {q[i] : i \in 0 .. n + 1}
  <2>1. \A i \in 0 .. n + 1 : i \in 0 .. n \/ i = n + 1
    OBVIOUS
  <2>2. \A i \in 0 .. n : i \in 0 .. n + 1
    OBVIOUS
  <2>3. n + 1 \in 0 .. n + 1
    OBVIOUS
  <2>4. \A i \in 0 .. n + 1 : q[i] \in Q
    BY <1>3, <1>6, <2>1
  <2>5. \A c \in Q : \E i \in 0 .. n + 1 : q[i] = c
    BY <1>1, <1>6, <2>2, <2>3
  <2> QED BY <2>4, <2>5
<1>13. OneRing(Q)'
  <2>1. n + 1 \in Nat
    OBVIOUS
  <2> QED BY <1>5, <1>11, <1>12, <2>1 DEF OneRing
<1>14. Nodes = Listed(n, p) /\ Nodes' = Listed(n + 1, q)'
  <2>1. n + 1 \in Nat
    OBVIOUS
  <2> QED BY <1>1, <1>5, <1>11, <2>1, NodesArePath
<1>15. Listed(n + 1, q)' = Listed(n + 1, q)
  BY DEF Listed
<1>16. /\ Listed(n, p) \in Seq(Cell) /\ Len(Listed(n, p)) = n
       /\ \A i \in 1 .. n : Listed(n, p)[i] = p[i]
  BY ListedTyped
<1>17. x \notin List!ToSet(Nodes)
  BY <1>3, <1>14, <1>16, LenProperties DEF List!ToSet
<1>18. Listed(n + 1, q) = Append(Nodes, x)
  <2>1. /\ Listed(n + 1, q) \in Seq(Cell) /\ Len(Listed(n + 1, q)) = n + 1
        /\ \A i \in 1 .. n + 1 : Listed(n + 1, q)[i] = q[i]
    BY <1>5, ListedTyped
  <2>2. /\ Append(Listed(n, p), x) \in Seq(Cell)
        /\ Len(Append(Listed(n, p), x)) = n + 1
        /\ \A i \in 1 .. n : Append(Listed(n, p), x)[i] = Listed(n, p)[i]
        /\ Append(Listed(n, p), x)[n + 1] = x
    BY <1>16, AppendProperties
  <2>3. \A i \in 1 .. n + 1 : Listed(n + 1, q)[i] = Append(Listed(n, p), x)[i]
    BY <1>6, <1>16, <2>1, <2>2
  <2> QED BY <1>14, <2>1, <2>2, <2>3, SeqEqual
<1> QED BY <1>13, <1>14, <1>15, <1>17, <1>18

(* Linking the neighbours of x to each other cuts x out of the list.       *)
LEMMA RingShrinks ==
  ASSUME NEW S, OneRing(S), NEW t \in S, NEW x \in S, x # head, NEW Q, Q = S \ {x},
         next \in [Cell -> Cell \cup {Nil}], next[t] = x,
         head' = head, next' = [next EXCEPT ![t] = next[x]], ~Interrupted, ~Interrupted'
  PROVE  OneRing(Q)' /\ \E k \in DOMAIN Nodes : Nodes' = List!RemoveAt(Nodes, k)
<1>0. PICK n \in Nat : \E p \in [0 .. n -> Cell] : Path(n, p) /\ S = {p[i] : i \in 0 .. n}
  BY DEF OneRing
<1>1. PICK p \in [0 .. n -> Cell] : Path(n, p) /\ S = {p[i] : i \in 0 .. n}
  BY <1>0
<1>2. /\ p[0] = head /\ next[p[n]] = head
      /\ \A i \in 1 .. n : next[p[i - 1]] = p[i]
      /\ \A i, j \in 0 .. n : p[i] = p[j] => i = j
  BY <1>1 DEF Path, Rings
<1>3. \A i \in 0 .. n : p[i] \in Cell
  OBVIOUS
<1>4. PICK k \in 0 .. n : p[k] = x
  BY <1>1
<1>5. k \in 1 .. n /\ k - 1 \in 0 .. n /\ n - 1 \in Nat
  BY <1>2, <1>4
<1>6. p[k - 1] = t
  <2>1. PICK j \in 0 .. n : p[j] = t
    BY <1>1
  <2>2. j # n
    BY <1>2, <2>1
  <2>3. j + 1 \in 1 .. n /\ (j + 1) - 1 = j /\ j + 1 \in 0 .. n
    BY <2>2
  <2>4. p[j + 1] = p[k]
    BY <1>2, <1>4, <2>1, <2>3
  <2>5. j + 1 = k
    BY <1>2, <2>3, <2>4
  <2> QED BY <2>1, <2>3, <2>5
<1>7. t \in Cell /\ next'[t] = next[x] /\ \A i \in 0 .. n : i # k - 1 => next'[p[i]] = next[p[i]]
  <2>1. \A i \in 0 .. n : i # k - 1 => p[i] # t
    BY <1>2, <1>5, <1>6
  <2>2. t \in Cell
    BY <1>3, <1>5, <1>6
  <2> QED BY <1>3, <2>1, <2>2
<1> DEFINE q == [i \in 0 .. n - 1 |-> IF i < k THEN p[i] ELSE p[i + 1]]
<1>8. /\ q \in [0 .. n - 1 -> Cell]
      /\ \A i \in 0 .. n - 1 : q[i] = IF i < k THEN p[i] ELSE p[i + 1]
  <2>1. \A i \in 0 .. n - 1 : i \in 0 .. n /\ i + 1 \in 0 .. n
    BY <1>5
  <2> QED BY <1>3, <2>1
<1> HIDE DEF q
<1>9. \A i \in 1 .. n - 1 : next'[q[i - 1]] = q[i]
  <2> SUFFICES ASSUME NEW i \in 1 .. n - 1 PROVE next'[q[i - 1]] = q[i]
    OBVIOUS
  <2>0. i \in 0 .. n - 1 /\ i - 1 \in 0 .. n - 1 /\ i \in 1 .. n /\ i + 1 \in 1 .. n
        /\ (i - 1) + 1 = i /\ (i + 1) - 1 = i /\ i \in 0 .. n /\ i - 1 \in 0 .. n
    BY <1>5
  <2>1. CASE i < k
    <3>1. q[i] = p[i] /\ q[i - 1] = p[i - 1] /\ i - 1 # k - 1
      BY <1>8, <2>0, <2>1
    <3> QED BY <1>2, <1>7, <2>0, <3>1
  <2>2. CASE i = k
    <3>1. q[i] = p[i + 1] /\ q[i - 1] = p[k - 1]
      BY <1>8, <2>0, <2>2
    <3>2. next[x] = p[i + 1]
      BY <1>2, <1>4, <2>0, <2>2
    <3> QED BY <1>6, <1>7, <3>1, <3>2
  <2>3. CASE i > k
    <3>1. q[i] = p[i + 1] /\ q[i - 1] = p[i] /\ i # k - 1
      BY <1>8, <2>0, <2>3
    <3>2. next'[p[i]] = next[p[i]] /\ next[p[i]] = p[i + 1]
      BY <1>2, <1>7, <2>0, <3>1
    <3> QED BY <3>1, <3>2
  <2> QED BY <2>0, <2>1, <2>2, <2>3
<1>10. next'[q[n - 1]] = head
  <2>1. CASE k = n
    <3>1. q[n - 1] = p[k - 1]
      BY <1>5, <1>8, <2>1
    <3> QED BY <1>2, <1>4, <1>6, <1>7, <2>1, <3>1
  <2>2. CASE k # n
    <3>1. n - 1 \in 0 .. n - 1 /\ (n - 1) + 1 = n /\ ~(n - 1 < k) /\ n # k - 1 /\ n \in 0 .. n
      BY <1>5, <2>2
    <3>2. q[n - 1] = p[n]
      BY <1>8, <3>1
    <3> QED BY <1>2, <1>7, <3>1, <3>2
  <2> QED BY <2>1, <2>2
<1>11. \A i, j \in 0 .. n - 1 : q[i] = q[j] => i = j
  <2> SUFFICES ASSUME NEW i \in 0 .. n - 1, NEW j \in 0 .. n - 1, q[i] = q[j] PROVE i = j
    OBVIOUS
  <2> DEFINE a == IF i < k THEN i ELSE i + 1
             b == IF j < k THEN j ELSE j + 1
  <2>1. a \in 0 .. n /\ b \in 0 .. n /\ (a = b => i = j)
    BY <1>5
  <2>2. q[i] = p[a] /\ q[j] = p[b]
    BY <1>8
  <2> HIDE DEF a, b
  <2> QED BY <1>2, <2>1, <2>2
<1>12. Path(n - 1, q)'
  <2>1. q[0] = head'
    BY <1>2, <1>5, <1>8
  <2> QED BY <1>9, <1>10, <1>11, <2>1 DEF Path, Rings
<1>13. Q = {q[i] : i \in 0 .. n - 1}
  <2>1. ASSUME NEW i \in 0 .. n - 1 PROVE q[i] \in Q
    <3> DEFINE a == IF i < k THEN i ELSE i + 1
    <3>1. a \in 0 .. n /\ a # k
      BY <1>5
    <3>2. q[i] = p[a]
      BY <1>8
    <3> HIDE DEF a
    <3>3. p[a] \in S /\ p[a] # p[k]
      BY <1>1, <1>2, <3>1
    <3> QED BY <1>4, <3>2, <3>3
  <2>2. ASSUME NEW c \in Q PROVE \E i \in 0 .. n - 1 : q[i] = c
    <3>1. PICK j \in 0 .. n : p[j] = c /\ j # k
      BY <1>1, <1>4
    <3> DEFINE i == IF j < k THEN j ELSE j - 1
    <3>2. i \in 0 .. n - 1 /\ j = IF i < k THEN i ELSE i + 1
      BY <1>5, <3>1
    <3> HIDE DEF i
    <3>3. q[i] = p[j]
      BY <1>8, <3>2
    <3> QED BY <3>1, <3>2, <3>3
  <2> QED BY <2>1, <2>2
<1>14. OneRing(Q)'
  BY <1>5, <1>8, <1>12, <1>13 DEF OneRing
<1>15. Nodes = Listed(n, p) /\ Nodes' = Listed(n - 1, q)'
  BY <1>1, <1>5, <1>8, <1>12, NodesArePath
<1>16. Listed(n - 1, q)' = Listed(n - 1, q)
  BY DEF Listed
<1>17. /\ Listed(n, p) \in Seq(Cell) /\ Len(Listed(n, p)) = n
       /\ \A i \in 1 .. n : Listed(n, p)[i] = p[i]
  BY ListedTyped
<1>18. k \in 1 .. Len(Listed(n, p))
  BY <1>5, <1>17
<1>19. /\ List!RemoveAt(Listed(n, p), k) \in Seq(Cell)
       /\ Len(List!RemoveAt(Listed(n, p), k)) = n - 1
       /\ \A i \in 1 .. n - 1 : List!RemoveAt(Listed(n, p), k)[i] =
                                  IF i < k THEN Listed(n, p)[i] ELSE Listed(n, p)[i + 1]
  BY <1>17, <1>18, RemoveAtIndices
<1>20. /\ Listed(n - 1, q) \in Seq(Cell) /\ Len(Listed(n - 1, q)) = n - 1
       /\ \A i \in 1 .. n - 1 : Listed(n - 1, q)[i] = q[i]
  BY <1>5, <1>8, ListedTyped
<1>21. \A i \in 1 .. n - 1 : List!RemoveAt(Listed(n, p), k)[i] = Listed(n - 1, q)[i]
  <2> SUFFICES ASSUME NEW i \in 1 .. n - 1
               PROVE  List!RemoveAt(Listed(n, p), k)[i] = Listed(n - 1, q)[i]
    OBVIOUS
  <2>1. i \in 0 .. n - 1 /\ i \in 1 .. n /\ i + 1 \in 1 .. n
    BY <1>5
  <2>2. List!RemoveAt(Listed(n, p), k)[i] = IF i < k THEN Listed(n, p)[i] ELSE Listed(n, p)[i + 1]
    BY <1>19
  <2>3. Listed(n, p)[i] = p[i] /\ Listed(n, p)[i + 1] = p[i + 1]
    BY <1>17, <2>1
  <2>4. Listed(n - 1, q)[i] = IF i < k THEN p[i] ELSE p[i + 1]
    BY <1>8, <1>20, <2>1
  <2> QED BY <2>2, <2>3, <2>4
<1>22. List!RemoveAt(Listed(n, p), k) = Listed(n - 1, q)
  BY <1>19, <1>20, <1>21, SeqEqual
<1>23. k \in DOMAIN Nodes
  BY <1>15, <1>17, <1>18, LenProperties
<1> QED BY <1>14, <1>15, <1>16, <1>22, <1>23

(* The inductive form: the nodes of which DInv speaks are one ring.        *)
ListInv ==
  /\ DInv
  /\ ~Interrupted => \E S \in SUBSET Cell : OneRing(S) /\ IF stale THEN IsList(S) ELSE Shape(S)

(* A dummy alone is the empty list.                                        *)
LEMMA DummyAlone ==
  ASSUME NEW d \in Cell
  PROVE  /\ head = d /\ next[d] = d /\ ~Interrupted => OneRing({d}) /\ Nodes = << >>
         /\ (head = d /\ next[d] = d /\ ~Interrupted => OneRing({d}) /\ Nodes = << >>)'
<1>1. head = d /\ next[d] = d /\ ~Interrupted => OneRing({d}) /\ Nodes = << >>
  <2> SUFFICES ASSUME head = d, next[d] = d, ~Interrupted PROVE OneRing({d}) /\ Nodes = << >>
    OBVIOUS
  <2> DEFINE p == [i \in 0 .. 0 |-> d]
  <2>1. p \in [0 .. 0 -> Cell] /\ p[0] = d /\ \A i \in 0 .. 0 : i = 0
    OBVIOUS
  <2>2. {d} = {p[i] : i \in 0 .. 0}
    BY <2>1
  <2> HIDE DEF p
  <2>3. Path(0, p)
    BY <2>1 DEF Path, Rings
  <2>4. OneRing({d})
    BY <2>1, <2>2, <2>3 DEF OneRing
  <2>5. Nodes = Listed(0, p)
    BY <2>1, <2>3, NodesArePath
  <2>6. Listed(0, p) \in Seq(Cell) /\ Len(Listed(0, p)) = 0
    BY <2>1, ListedTyped
  <2>7. Listed(0, p) = << >>
    BY <2>6, EmptySeq
  <2> QED BY <2>4, <2>5, <2>7
<1> QED BY <1>1, PTL

(* init_dll makes the empty list.                                          *)
LEMMA ListBegins == Init => ListInv /\ List!LInit
<1> SUFFICES ASSUME Init PROVE ListInv /\ List!LInit
  OBVIOUS
<1> USE NilAssumption
<1>1. PICK d \in Cell : live = {d} /\ next = [c \in Cell |-> IF c = d THEN d ELSE Nil]
                        /\ prev = next /\ head = d /\ tail = d
  BY DEF Init
<1>2. next[d] = d /\ pc = "idle" /\ stale = FALSE /\ ~Interrupted
  BY <1>1 DEF Init, Interrupted
<1>3. OneRing({d}) /\ Nodes = << >>
  BY <1>1, <1>2, DummyAlone
<1>4. IsList({d})
  BY <1>1, <1>2 DEF IsList, IsRing
<1>5. Shape({d})
  BY <1>2, <1>4 DEF Shape
<1> QED BY <1>2, <1>3, <1>5, DInit DEF ListInv, List!LInit

(* A step of process_sync_mesg on its list leaves the nodes, appends one   *)
(* (the second pointer write of append), or cuts one out (the first of del).*)
LEMMA MainStep ==
  ASSUME ListInv, ~Interrupted, ~stale,
         \/ Begin \/ Advance("find") \/ Advance("check") \/ Hit \/ Miss \/ Checked
         \/ Alloc \/ HeadPrev \/ TailNext \/ SetTail
         \/ PrevNext \/ NextPrev \/ FixTail \/ Free
  PROVE  /\ \E T \in SUBSET Cell : OneRing(T)' /\ Shape(T)'
         /\ [List!LNext]_Nodes
<1>0. PICK S \in SUBSET Cell : OneRing(S) /\ Shape(S)
  BY DEF ListInv
<1>1. DInv /\ TypeOK
  BY DEF ListInv, DInv
<1>2. UNCHANGED ctl /\ head' = head /\ ~Interrupted'
  BY DEF Begin, Advance, Hit, Miss, Checked, Alloc, Calloc, HeadPrev, TailNext, SetTail,
         PrevNext, NextPrev, FixTail, Free, Main, heap, ends, ctl, Interrupted
<1>3. CASE Begin \/ Advance("find") \/ Advance("check") \/ Hit \/ Miss \/ Checked
  <2>1. Shape(S)'
    BY <1>0, <1>1, <1>3, SearchStep
  <2>2. next' = next
    BY <1>3 DEF Begin, Advance, Hit, Miss, Checked, heap
  <2> QED BY <1>0, <1>2, <2>1, <2>2, RingKept
<1>4. CASE Alloc \/ HeadPrev \/ SetTail
  <2>1. PICK T \in SUBSET Cell : Shape(T)' /\ T = IF pc = "tailnext" THEN S \cup {node} ELSE S
    BY <1>0, <1>1, <1>4, AppendStep
  <2>2. T = S
    BY <1>4, <2>1 DEF Alloc, Calloc, HeadPrev, SetTail, Main
  <2>3. \A c \in S : next'[c] = next[c]
    <3>1. CASE Alloc
      <4>1. S \subseteq live
        BY <1>0, <3>1 DEF Alloc, Calloc, Main, Shape, IsList, IsRing
      <4>2. PICK c \in Cell \ live : next' = [next EXCEPT ![c] = head]
        BY <3>1 DEF Alloc, Calloc
      <4> QED BY <4>1, <4>2
    <3>2. CASE HeadPrev \/ SetTail
      BY <3>2 DEF HeadPrev, SetTail, heap
    <3> QED BY <1>4, <3>1, <3>2
  <2> QED BY <1>0, <1>2, <2>1, <2>2, <2>3, RingKept
<1>5. CASE TailNext
  <2>1. PICK T \in SUBSET Cell : Shape(T)' /\ T = IF pc = "tailnext" THEN S \cup {node} ELSE S
    BY <1>0, <1>1, <1>5, AppendStep
  <2>2. pc = "tailnext" /\ next' = [next EXCEPT ![tail] = node]
    BY <1>5 DEF TailNext, Main
  <2>3. HalfLinked(S)
    BY <1>0, <2>2 DEF Shape
  <2>4. PICK x, t : x = node /\ t = tail
    OBVIOUS
  <2>5. /\ x \in Cell \ S /\ t \in S /\ t \in Cell /\ T = S \cup {x}
        /\ next[x] = head /\ next[t] = head /\ next' = [next EXCEPT ![t] = x]
        /\ next \in [Cell -> Cell \cup {Nil}]
    BY <1>1, <2>1, <2>2, <2>3, <2>4 DEF HalfLinked, TypeOK
  <2>6. OneRing(T)' /\ x \notin List!ToSet(Nodes) /\ Nodes' = Append(Nodes, x)
    BY <1>0, <1>2, <2>5, RingGrows
  <2>7. List!PushBack(x)
    BY <2>6 DEF List!PushBack
  <2> QED BY <2>1, <2>5, <2>6, <2>7 DEF List!LNext
<1>6. CASE PrevNext
  <2>1. PICK T \in SUBSET Cell : Shape(T)' /\ T = IF pc = "prevnext" THEN S \ {node} ELSE S
    BY <1>0, <1>1, <1>6, DelStep
  <2>2. pc = "prevnext" /\ next' = [next EXCEPT ![prev[node]] = next[node]]
    BY <1>6 DEF PrevNext, Main
  <2>3. IsList(S) /\ node \in S \ {head}
    BY <1>0, <2>2 DEF Shape
  <2>4. PICK x, t : x = node /\ t = prev[node]
    OBVIOUS
  <2>5. /\ x \in S /\ x # head /\ t \in S /\ T = S \ {x} /\ next[t] = x
        /\ next' = [next EXCEPT ![t] = next[x]] /\ next \in [Cell -> Cell \cup {Nil}]
    BY <1>1, <2>1, <2>2, <2>3, <2>4 DEF IsList, IsRing, TypeOK
  <2>6. OneRing(T)' /\ \E k \in DOMAIN Nodes : Nodes' = List!RemoveAt(Nodes, k)
    BY <1>0, <1>2, <2>5, RingShrinks
  <2>7. \E k \in DOMAIN Nodes : List!TakeOut(k)
    BY <2>6 DEF List!TakeOut
  <2> QED BY <2>1, <2>6, <2>7 DEF List!LNext
<1>7. CASE NextPrev \/ FixTail \/ Free
  <2>1. PICK T \in SUBSET Cell : Shape(T)' /\ T = IF pc = "prevnext" THEN S \ {node} ELSE S
    BY <1>0, <1>1, <1>7, DelStep
  <2>2. T = S
    BY <1>7, <2>1 DEF NextPrev, FixTail, Free, Main
  <2>3. next' = next
    BY <1>7 DEF NextPrev, FixTail, Free, heap
  <2> QED BY <1>0, <1>2, <2>1, <2>2, <2>3, RingKept
<1> QED BY <1>3, <1>4, <1>5, <1>6, <1>7

(* The handler empties the list at once and leaves it so.                  *)
LEMMA HandlerStep ==
  ASSUME ListInv, DInv', Signal \/ HandlerDel \/ HandlerInit
  PROVE  ListInv' /\ [List!LNext]_Nodes
<1> USE NilAssumption
<1>1. CASE Signal
  <2>1. PICK S \in SUBSET Cell : OneRing(S)
    BY <1>1 DEF Signal, ListInv
  <2>2. PICK n \in Nat : \E p \in [0 .. n -> Cell] : Path(n, p)
    BY <2>1 DEF OneRing
  <2>3. PICK p \in [0 .. n -> Cell] : Path(n, p)
    BY <2>2
  <2>4. next[head] \in Cell
    <3>1. p[0] = head /\ next[p[n]] = head /\ \A i \in 1 .. n : next[p[i - 1]] = p[i]
      BY <2>3 DEF Path, Rings
    <3>2. CASE n = 0
      BY <3>1, <3>2
    <3>3. CASE n # 0
      <4>1. 1 \in 1 .. n /\ 1 - 1 = 0 /\ 1 \in 0 .. n
        BY <3>3
      <4> QED BY <3>1, <4>1
    <3> QED BY <3>2, <3>3
  <2>5. Interrupted'
    BY <1>1, <2>4 DEF Signal, Interrupted
  <2>6. Nodes' = << >>
    BY <2>5 DEF Nodes
  <2>7. List!Clear
    BY <2>6 DEF List!Clear
  <2> QED BY <2>5, <2>7 DEF ListInv, List!LNext
<1>2. CASE HandlerDel
  <2>1. PICK R \in SUBSET Cell : Rest(R)
    BY <1>2 DEF HandlerDel, ListInv, DInv
  <2>2. hcur' \in Cell
    BY <1>2, <2>1 DEF HandlerDel, Rest
  <2>3. Interrupted /\ Interrupted'
    BY <1>2, <2>2 DEF HandlerDel, Interrupted
  <2>4. Nodes = << >> /\ Nodes' = << >>
    BY <2>3 DEF Nodes
  <2> QED BY <2>3, <2>4 DEF ListInv
<1>3. CASE HandlerInit
  <2>1. PICK d \in Cell \ live :
          /\ live' = live \cup {d} /\ head' = d /\ tail' = d
          /\ next' = [next EXCEPT ![d] = d] /\ prev' = [prev EXCEPT ![d] = d]
    BY <1>3 DEF HandlerInit
  <2>2. Interrupted /\ ~Interrupted' /\ UNCHANGED <<pc, stale>>
    BY <1>3 DEF HandlerInit, Interrupted
  <2>3. TypeOK /\ (~stale => pc = "idle")
    BY <2>2 DEF ListInv, DInv
  <2>4. next'[d] = d /\ prev'[d] = d
    BY <2>1, <2>3 DEF TypeOK
  <2>5. OneRing({d})' /\ Nodes' = << >>
    BY <2>1, <2>2, <2>4, DummyAlone
  <2>6. IsList({d})'
    BY <2>1, <2>4 DEF IsList, IsRing
  <2>7. ~stale' => Shape({d})'
    BY <2>2, <2>3, <2>6 DEF Shape
  <2>8. Nodes = << >>
    BY <2>2 DEF Nodes
  <2> QED BY <2>2, <2>5, <2>6, <2>7, <2>8 DEF ListInv
<1> QED BY <1>1, <1>2, <1>3

(* Each step of the pointer program is a step of the list or a stutter.    *)
LEMMA ListStep == ListInv /\ [Next]_vars => ListInv' /\ [List!LNext]_Nodes
<1> SUFFICES ASSUME ListInv, [Next]_vars PROVE ListInv' /\ [List!LNext]_Nodes
  OBVIOUS
<1>1. DInv'
  BY DStep DEF ListInv
<1>2. CASE Signal \/ HandlerDel \/ HandlerInit
  BY <1>1, <1>2, HandlerStep
<1>3. CASE UseFreed \/ UNCHANGED vars
  <2>1. UNCHANGED <<heap, ends, node, ctl>> /\ (pc' = pc \/ (stale /\ ~Interrupted))
    BY <1>3 DEF UseFreed, vars
  <2>2. Interrupted' = Interrupted /\ head' = head /\ next' = next /\ stale' = stale
    BY <2>1 DEF Interrupted, ctl, ends, heap
  <2>3. CASE Interrupted
    <3>1. Nodes = << >> /\ Nodes' = << >>
      BY <2>2, <2>3 DEF Nodes
    <3> QED BY <1>1, <2>2, <2>3, <3>1 DEF ListInv
  <2>4. CASE ~Interrupted
    <3>1. PICK S \in SUBSET Cell : OneRing(S) /\ IF stale THEN IsList(S) ELSE Shape(S)
      BY <2>4 DEF ListInv
    <3>2. OneRing(S)' /\ Nodes' = Nodes
      BY <2>2, <2>4, <3>1, RingKept
    <3>3. stale => IsList(S)'
      BY <2>1, <3>1 DEF heap, ends, IsList, IsRing
    <3>4. ~stale => Shape(S)'
      BY <2>1, <3>1 DEF heap, ends, Shape, IsList, IsRing, HalfLinked, HalfUnlinked, Alone
    <3> QED BY <1>1, <2>2, <3>2, <3>3, <3>4 DEF ListInv
  <2> QED BY <2>3, <2>4
<1>4. ASSUME ~Interrupted, ~stale,
             \/ Begin \/ Advance("find") \/ Advance("check") \/ Hit \/ Miss \/ Checked
             \/ Alloc \/ HeadPrev \/ TailNext \/ SetTail
             \/ PrevNext \/ NextPrev \/ FixTail \/ Free
      PROVE  ListInv' /\ [List!LNext]_Nodes
  <2>1. UNCHANGED ctl
    BY <1>4 DEF Main, Begin, Advance, Hit, Miss, Checked, Alloc, Calloc, HeadPrev, TailNext, SetTail,
       PrevNext, NextPrev, FixTail, Free
  <2>2. ~stale'
    BY <1>4, <2>1 DEF ctl
  <2>3. /\ \E T \in SUBSET Cell : OneRing(T)' /\ Shape(T)'
        /\ [List!LNext]_Nodes
    BY <1>4, MainStep
  <2> QED BY <1>1, <2>2, <2>3 DEF ListInv
<1> QED
  BY <1>2, <1>3, <1>4 DEF Next, Main, Begin, Advance, Hit, Miss, Checked, Alloc, Calloc, HeadPrev,
     TailNext, SetTail, PrevNext, NextPrev, FixTail, Free

(* Whatever it is interrupted by and between which of its writes, the      *)
(* pointer program is a list that grows at the back, loses one node at a   *)
(* time, or is emptied.                                                    *)
THEOREM ListImplemented == Spec => Implements
<1>1. ListInv /\ [Next]_vars => [List!LNext]_Nodes
  BY ListStep
<1>2. ListInv /\ [Next]_vars => ListInv'
  BY ListStep
<1>3. Init => ListInv /\ List!LInit
  BY ListBegins
<1> QED BY <1>1, <1>2, <1>3, PTL DEF Spec, Implements, List!LSpec

----------------------------------------------------------------------------
(* The shared address.                                                     *)

(* No entry or message is ahead of the address in the object.              *)
Announced(m) == m.op = "CREATE" => m.ver \in 1 .. ver
NoneAhead ==
  /\ tver <= ver /\ \A c \in Clients : need[c] <= ver /\ (cpc[c] = "off" => need[c] = 0)
  /\ \A c \in Clients : \A k \in DOMAIN chan[c] : Announced(chan[c][k])

(* The object is as store_IP has left it.                                  *)
AsStored ==
  /\ obj = "absent" => ver = 0
  /\ wpc = "stored" => ver = cmds /\ ver > 0 /\ obj = "full"
  /\ wpc = "opened" => cmds > 0
  /\ wpc \in {"sized", "copying"} => cmds > 0 /\ obj \in {"zero", "part"}
  /\ obj \in {"empty", "zero", "part"} => Storing \/ refused \/ wpc = "killed"

IpInv == IpTypeOK /\ NoneAhead /\ AsStored /\ FreshIp

(* Nothing is announced at the start. *)
LEMMA IpInitHolds == IpInit => IpInv
<1> SUFFICES ASSUME IpInit PROVE IpInv
  OBVIOUS
<1>1. IpTypeOK
  <2>1. ver \in 0 .. cmds /\ cmds \in 0 .. MaxCmds /\ tver \in 0 .. cmds /\ 0 \in 0 .. cmds
    BY CmdsAssumption DEF IpInit
  <2>2. chan \in [Clients -> Seq(Messages)]
    BY DEF IpInit
  <2>3. need \in [Clients -> 0 .. cmds] /\ shown \in [Clients -> {Torn} \cup 0 .. cmds]
    BY <2>1 DEF IpInit
  <2>4. cpc \in [Clients -> ClientStates] /\ \A c \in Clients : cpc[c] # "mapped"
    BY DEF IpInit, ClientStates
  <2> QED BY <2>1, <2>2, <2>3, <2>4 DEF IpInit, IpTypeOK, Contents, StoreStates
<1>2. NoneAhead /\ AsStored /\ FreshIp
  BY DEF IpInit, NoneAhead, Announced, AsStored, FreshIp
<1> QED BY <1>1, <1>2 DEF IpInv

(* A message at the end of a queue is the only new one. *)
LEMMA Appended ==
  ASSUME NEW S, NEW q \in Seq(S), NEW m \in S
  PROVE  /\ Append(q, m) \in Seq(S)
         /\ \A k \in DOMAIN Append(q, m) : Append(q, m)[k] = m \/ (k \in DOMAIN q /\ Append(q, m)[k] = q[k])
  OBVIOUS

(* What is left of a queue was in it. *)
LEMMA Popped ==
  ASSUME NEW S, NEW q \in Seq(S), q # <<>>
  PROVE  /\ Tail(q) \in Seq(S) /\ 1 \in DOMAIN q /\ Head(q) = q[1]
         /\ \A k \in DOMAIN Tail(q) : k + 1 \in DOMAIN q /\ Tail(q)[k] = q[k + 1]
  OBVIOUS

(* The steps of store_IP, and of a server that displays or dies. *)
LEMMA StoreKeeps ==
  ASSUME IpInv, StoreOpen \/ StoreSize \/ StoreRefused \/ StoreCopy \/ StoreCopied \/ SShow \/ SKill
  PROVE  IpInv'
<1>1. UNCHANGED <<tver, chan, cpc, need, shown>> /\ ver' \in Nat /\ ver' >= ver /\ ver' <= cmds' /\ cmds' >= cmds /\ cmds' \in 0 .. MaxCmds
  BY CmdsAssumption DEF StoreOpen, StoreSize, StoreRefused, StoreCopy, StoreCopied, SShow, SKill, clients, IpInv, IpTypeOK
<1>2. IpTypeOK'
  <2>1. obj' \in Contents /\ wpc' \in StoreStates /\ refused' \in BOOLEAN
    BY DEF StoreOpen, StoreSize, StoreRefused, StoreCopy, StoreCopied, SShow, SKill, IpInv, IpTypeOK, Contents, StoreStates
  <2>2. 0 .. cmds \subseteq 0 .. cmds'
    BY <1>1 DEF IpInv, IpTypeOK
  <2> QED BY <1>1, <2>1, <2>2 DEF IpInv, IpTypeOK
<1>3. NoneAhead'
  BY <1>1, CmdsAssumption DEF IpInv, NoneAhead, Announced, IpTypeOK
<1>4. AsStored'
  BY <1>1, CmdsAssumption DEF StoreOpen, StoreSize, StoreRefused, StoreCopy, StoreCopied, SShow, SKill, IpInv, IpTypeOK,
     AsStored, Storing
<1>5. FreshIp'
  BY <1>1 DEF IpInv, FreshIp
<1> QED BY <1>2, <1>3, <1>4, <1>5 DEF IpInv

(* A broadcast of an announced message keeps the queues in order. *)
LEMMA BroadcastKeeps ==
  ASSUME IpTypeOK, NoneAhead, NEW m \in Messages, Announced(m), Broadcast(m), ver' = ver
  PROVE  /\ chan' \in [Clients -> Seq(Messages)]
         /\ \A c \in Clients : \A k \in DOMAIN chan'[c] : Announced(chan[c][k])'
<1>1. \A c \in Clients : chan[c] \in Seq(Messages)
  BY DEF IpTypeOK
<1>2. ASSUME NEW c \in Clients
      PROVE  chan'[c] \in Seq(Messages) /\ \A k \in DOMAIN chan'[c] : Announced(chan[c][k])'
  <2>1. CASE cpc[c] \in {"off", "dead"}
    BY <2>1 DEF Broadcast
  <2>2. CASE cpc[c] \notin {"off", "dead"}
    <3>1. chan'[c] = Append(chan[c], m)
      BY <2>2 DEF Broadcast
    <3>2. chan'[c] \in Seq(Messages) /\ \A k \in DOMAIN chan'[c] : chan'[c][k] = m \/ (k \in DOMAIN chan[c] /\ chan'[c][k] = chan[c][k])
      BY <1>1, <3>1, Appended
    <3>3. \A k \in DOMAIN chan[c] : Announced(chan[c][k])
      BY DEF NoneAhead
    <3> QED BY <3>2, <3>3 DEF Announced
  <2> QED BY <2>1, <2>2
<1> QED BY <1>2 DEF Broadcast

(* CREATE and DELETE at the server. *)
LEMMA CommandKeeps == ASSUME IpInv, SCreate \/ SDelete PROVE IpInv'
<1> USE CmdsAssumption
<1>1. CASE SCreate
  <2>1. Message("CREATE", cmds) \in Messages /\ Announced(Message("CREATE", cmds))
    BY <1>1 DEF SCreate, Message, Messages, Announced, IpInv, IpTypeOK, AsStored
  <2>2. /\ chan' \in [Clients -> Seq(Messages)]
        /\ \A c \in Clients : \A k \in DOMAIN chan'[c] : Announced(chan[c][k])'
    BY <1>1, <2>1, BroadcastKeeps DEF SCreate, IpInv
  <2>3. IpTypeOK'
    BY <1>1, <2>2 DEF SCreate, clients, IpInv, IpTypeOK, ClientStates, StoreStates, Contents
  <2>4. NoneAhead'
    BY <1>1, <2>2 DEF SCreate, clients, IpInv, NoneAhead, AsStored, IpTypeOK
  <2>5. AsStored'
    BY <1>1, <2>2 DEF SCreate, clients, IpInv, AsStored, Storing, IpTypeOK
  <2>6. FreshIp'
    BY <1>1, <2>2 DEF SCreate, clients, IpInv, FreshIp, IpTypeOK, ClientStates
  <2> QED BY <2>3, <2>4, <2>5, <2>6 DEF IpInv
<1>2. CASE SDelete
  <2>1. Message("DELETE", 0) \in Messages /\ Announced(Message("DELETE", 0))
    BY DEF Message, Messages, Announced
  <2>2. /\ chan' \in [Clients -> Seq(Messages)]
        /\ \A c \in Clients : \A k \in DOMAIN chan'[c] : Announced(chan[c][k])'
    BY <1>2, <2>1, BroadcastKeeps DEF SDelete, IpInv
  <2>3. obj' = obj
    BY <1>2 DEF SDelete, Unlink
  <2>4. IpTypeOK'
    BY <1>2, <2>2, <2>3 DEF SDelete, clients, IpInv, IpTypeOK, ClientStates, StoreStates, Contents
  <2>5. NoneAhead'
    BY <1>2, <2>2, <2>3 DEF SDelete, clients, IpInv, NoneAhead, IpTypeOK
  <2>6. AsStored'
    BY <1>2, <2>2, <2>3 DEF SDelete, clients, IpInv, AsStored, Storing, IpTypeOK
  <2>7. FreshIp'
    BY <1>2, <2>2, <2>3 DEF SDelete, clients, IpInv, FreshIp, IpTypeOK, ClientStates
  <2> QED BY <2>4, <2>5, <2>6, <2>7 DEF IpInv
<1> QED BY <1>1, <1>2

(* The steps of a client. *)
LEMMA ClientKeeps == ASSUME IpInv, NEW c \in Clients, ClientNext(c) PROVE IpInv'
<1> USE CmdsAssumption
<1>1. CASE SJoin(c)
  <2>1. tver # 0 => Message("CREATE", tver) \in Messages /\ Announced(Message("CREATE", tver))
    BY DEF Message, Messages, Announced, IpInv, IpTypeOK, NoneAhead
  <2>2. chan'[c] \in Seq(Messages) /\ \A k \in DOMAIN chan'[c] : Announced(chan'[c][k])
    BY <1>1, <2>1 DEF SJoin, IpInv, IpTypeOK
  <2>3. IpTypeOK'
    BY <1>1, <2>2 DEF SJoin, store, IpInv, IpTypeOK, ClientStates, StoreStates, Contents
  <2>4. NoneAhead'
    BY <1>1, <2>2 DEF SJoin, store, IpInv, NoneAhead, Announced, IpTypeOK
  <2>5. AsStored'
    BY <1>1, <2>2 DEF SJoin, store, IpInv, AsStored, Storing, IpTypeOK
  <2>6. FreshIp'
    BY <1>1, <2>2 DEF SJoin, store, IpInv, FreshIp, NoneAhead, IpTypeOK, ClientStates
  <2> QED BY <2>3, <2>4, <2>5, <2>6 DEF IpInv
<1>2. ASSUME NEW op, Told(c, op)
      PROVE  /\ chan' \in [Clients -> Seq(Messages)] /\ Head(chan[c]) \in Messages /\ Announced(Head(chan[c]))
             /\ Head(chan[c]).op = op /\ cpc[c] = "idle"
             /\ \A d \in Clients : \A k \in DOMAIN chan'[d] : Announced(chan'[d][k])
  <2>1. chan[c] \in Seq(Messages) /\ chan[c] # <<>> /\ chan' = [chan EXCEPT ![c] = Tail(chan[c])]
    BY <1>2 DEF Told, IpInv, IpTypeOK
  <2>2. /\ Tail(chan[c]) \in Seq(Messages) /\ 1 \in DOMAIN chan[c] /\ Head(chan[c]) = chan[c][1]
        /\ \A k \in DOMAIN Tail(chan[c]) : k + 1 \in DOMAIN chan[c] /\ Tail(chan[c])[k] = chan[c][k + 1]
    BY <2>1, Popped
  <2>3. Head(chan[c]) \in Messages
    BY <2>1
  <2>4. chan \in [Clients -> Seq(Messages)]
    BY DEF IpInv, IpTypeOK
  <2> QED BY <1>2, <2>1, <2>2, <2>3, <2>4 DEF Told, IpInv, NoneAhead
<1>3. CASE CAdds(c)
  <2>1. /\ chan' \in [Clients -> Seq(Messages)] /\ Head(chan[c]).ver \in 1 .. ver
        /\ \A d \in Clients : \A k \in DOMAIN chan'[d] : Announced(chan'[d][k])
    BY <1>2, <1>3 DEF CAdds, Announced
  <2>2. obj' = obj
    BY <1>3, <2>1 DEF CAdds, Map, IpInv, AsStored, IpTypeOK
  <2>3. IpTypeOK'
    <3>1. Head(chan[c]).ver \in 0 .. cmds /\ Head(chan[c]).ver # 0
      BY <2>1 DEF IpInv, IpTypeOK
    <3> QED BY <1>3, <2>1, <2>2, <3>1 DEF CAdds, Map, IpInv, IpTypeOK, ClientStates
  <2>4. NoneAhead'
    BY <1>3, <2>1, <2>2 DEF CAdds, Map, IpInv, NoneAhead, Announced, IpTypeOK
  <2>5. AsStored'
    BY <1>3, <2>1, <2>2 DEF CAdds, Map, IpInv, AsStored, Storing, IpTypeOK
  <2>6. FreshIp'
    BY <1>3, <2>1, <2>2 DEF CAdds, Map, IpInv, FreshIp, IpTypeOK, ClientStates
  <2> QED BY <2>3, <2>4, <2>5, <2>6 DEF IpInv
<1>4. CASE CHasIt(c)
  BY <1>2, <1>4 DEF CHasIt, store, clients, IpInv, IpTypeOK, NoneAhead, AsStored, FreshIp, Storing, Announced
<1>5. CASE CDeletes(c)
  <2>1. obj' = obj
    BY <1>5 DEF CDeletes, Unlink
  <2> QED BY <1>2, <1>5, <2>1 DEF CDeletes, IpInv, IpTypeOK, NoneAhead, AsStored, FreshIp, Storing, Announced
<1>6. CASE CShow(c)
  <2>1. obj' = obj
    BY <1>6 DEF CShow, Map, IpInv, AsStored, NoneAhead, IpTypeOK
  <2> QED BY <1>6, <2>1 DEF CShow, Map, IpInv, IpTypeOK, NoneAhead, AsStored, FreshIp, Storing, Announced, ClientStates
<1>7. CASE CCopy(c)
  BY <1>7 DEF CCopy, store, IpInv, IpTypeOK, NoneAhead, AsStored, FreshIp, Storing, Announced, ClientStates, Torn
<1>8. CASE CSigbus(c)
  BY <1>8 DEF CSigbus, store, IpInv, IpTypeOK, NoneAhead, AsStored, FreshIp, Storing, Announced, ClientStates
<1> QED BY <1>1, <1>3, <1>4, <1>5, <1>6, <1>7, <1>8 DEF ClientNext

(* The invariant holds in every reachable state. *)
THEOREM IpInvariant == IpSpec => []IpInv
<1>1. ASSUME IpInv, [IpNext]_ipVars PROVE IpInv'
  <2>1. CASE UNCHANGED ipVars
    BY <1>1, <2>1 DEF ipVars, store, clients, IpInv, IpTypeOK, NoneAhead, Announced, AsStored, FreshIp, Storing
  <2> QED BY <1>1, <2>1, StoreKeeps, CommandKeeps, ClientKeeps DEF IpNext, ServerNext
<1> QED BY IpInitHolds, <1>1, PTL DEF IpSpec

(* The variables keep their types, and only a listed MAC is read. *)
THEOREM IpTypeCorrect == IpSpec => []IpTypeOK
<1>1. IpInv => IpTypeOK
  BY DEF IpInv
<1> QED BY <1>1, IpInvariant, PTL

(* The region of a MAC somebody knows of is complete outside stores. *)
THEOREM RegionsReady == IpSpec => []RegionReady
<1>1. IpInv => RegionReady
  BY DEF IpInv, IpTypeOK, NoneAhead, Announced, AsStored, RegionReady, BeingTold, Contents
<1> QED BY <1>1, IpInvariant, PTL

(* A client never displays an address older than the one it was told of. *)
THEOREM DisplaysFresh == IpSpec => []FreshIp
<1>1. IpInv => FreshIp
  BY DEF IpInv
<1> QED BY <1>1, IpInvariant, PTL
=============================================================================
