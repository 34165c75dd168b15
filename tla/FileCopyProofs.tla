--------------------------- MODULE FileCopyProofs ---------------------------
(***************************************************************************)
(* The copying programs deliver the bytes of each file in order, and an    *)
(* end without trouble means that everything has arrived: for any files,   *)
(* buffer and socket, whatever calls fail and whichever process is killed. *)
(* A byte read is in one place at a time: in the sender's buffer, in the   *)
(* socket, in the receiver's buffer or in the destination.  The invariant  *)
(* says that these hold consecutive pieces of the source.                  *)
(***************************************************************************)
EXTENDS FileCopyProps, SequenceTheorems, TLAPS

Alive == {"accept", "read", "write"}

(* s is what t holds after its first n bytes, or the beginning of that.    *)
Piece(s, t, n) ==
  n + Len(s) <= Len(t) /\ \A i \in 1..Len(s) : s[i] = t[n + i]

(* Every variable has its type.                                            *)
CopyTypes ==
  /\ prog \in {"copy_file", "copy_dir", "usage", "test", "download"}
  /\ source \in [Names -> Seq(Nat)] /\ file \in [Names -> Seq(Nat)]
  /\ same \in BOOLEAN /\ unseen \in BOOLEAN
  /\ cwd \subseteq Names /\ mine \subseteq Names /\ todo \subseteq Names
  /\ DOMAIN dst = Names /\ \A f \in mine : dst[f] \in Seq(Nat)
  /\ cur \in Names \cup {Absent} /\ pos \in Nat
  /\ spc \in {"next", "open", "read", "write", "done", "failed"}
  /\ rpc \in Alive \cup {"off", "done", "failed"}
  /\ sbuf \in Seq(Nat) /\ rbuf \in Seq(Nat) /\ sock \in Seq(Nat)
  /\ link \in {"none", "open", "fin", "broken"}

(* The sender's buffer is in use only between a read and a write, a file   *)
(* is opened once, and only a copy onto itself changes the source.         *)
Roles ==
  /\ dst = [f \in Names |-> dst[f]]
  /\ prog = "download" <=> rpc # "off"
  /\ prog = "download" => ~same
  /\ ~same => file = source
  /\ spc # "write" => sbuf = <<>>
  /\ todo \cap mine = {} /\ cur \notin todo
  /\ spc \in {"open", "read", "write"} => cur \in Names
  /\ spc = "open" => pos = 0
  /\ prog = "usage" => spc \in {"next", "failed"}
  /\ spc = "done" => todo = {}

(* What a destination of this run holds is the beginning of its source.    *)
InOrder == \A f \in mine : Piece(dst[f], source[f], 0)

(* copy and test: what has been read is in the destination or the buffer.  *)
LocalLoop ==
  prog # "download" =>
    /\ link = "none"
    /\ spc = "open" => cur \notin mine
    /\ spc \in {"read", "write"} => cur \in mine
    /\ same => spc # "write" /\ (spc = "read" => file[cur] = <<>>)
    /\ ~same /\ spc \in {"read", "write"} =>
         /\ Piece(sbuf, source[cur], Len(dst[cur]))
         /\ pos = Len(dst[cur]) + Len(sbuf)

(* The download: as long as the server lives, the connection holds what    *)
(* has been read and not yet written, in order.                            *)
Written == IF cur \in mine THEN Len(dst[cur]) ELSE 0

InTransit ==
  /\ Piece(rbuf, source[cur], Written)
  /\ Piece(sock, source[cur], Written + Len(rbuf))
  /\ Piece(sbuf, source[cur], Written + Len(rbuf) + Len(sock))
  /\ spc # "failed" => pos = Written + Len(rbuf) + Len(sock) + Len(sbuf)

Pipeline ==
  prog = "download" =>
    /\ rpc \in {"read", "write"} => cur \in mine
    /\ rpc = "accept" => mine = {}
    /\ rpc # "write" => rbuf = <<>>
    /\ link = "none" => /\ mine = {} /\ sock = <<>> /\ todo # {}
                        /\ rpc \in {"accept", "failed"}
                        /\ spc \in {"next", "failed"}
    /\ link # "none" => cur \in Names /\ todo = {}
    /\ link = "fin" => spc \in {"done", "failed"}
    /\ link = "open" => spc # "failed" /\ spc # "done"
    /\ rpc \in Alive => link # "broken" /\ (link # "none" => InTransit)

(* Without trouble that goes unseen, a loop that has ended has read, and   *)
(* delivered, all there was.                                               *)
Whole(f) == dst[f] = source[f]

LoopsWhole ==
  ~unseen /\ ~same =>
    /\ prog = "copy_dir" =>
         /\ spc \in {"next", "done"} => \A f \in cwd \ (long \cup todo) : Whole(f)
         /\ spc \in {"open", "read", "write"} =>
              \A f \in cwd \ (long \cup todo \cup {cur}) : Whole(f)
    /\ prog \in {"copy_file", "test"} /\ spc \in {"next", "done"} /\ cur \in Names =>
         Whole(cur)
    /\ prog = "download" /\ spc \in {"next", "done"} /\ link # "none" =>
         pos = Len(source[cur])
    /\ rpc = "done" => link = "fin" /\ (spc = "done" => Whole(cur))

CopyInv == CopyTypes /\ Roles /\ InOrder /\ LocalLoop /\ Pipeline /\ LoopsWhole

----------------------------------------------------------------------------
(* Pieces of a sequence.                                                   *)

(* The smaller of two numbers is one of them and below both.               *)
LEMMA MinOfTwo ==
  ASSUME NEW a \in Int, NEW b \in Int
  PROVE  Min({a, b}) \in {a, b} /\ Min({a, b}) <= a /\ Min({a, b}) <= b
<1>1. \E x \in {a, b} : \A y \in {a, b} : x =< y
  OBVIOUS
<1>2. Min({a, b}) \in {a, b} /\ \A y \in {a, b} : Min({a, b}) =< y
  BY <1>1 DEF Min
<1> QED BY <1>2

(* The first n bytes of a sequence, and the others.                        *)
LEMMA SeqSplit ==
  ASSUME NEW s \in Seq(Nat), NEW n \in 0..Len(s)
  PROVE  /\ SubSeq(s, 1, n) \in Seq(Nat) /\ Len(SubSeq(s, 1, n)) = n
         /\ \A i \in 1..n : SubSeq(s, 1, n)[i] = s[i]
         /\ SubSeq(s, n + 1, Len(s)) \in Seq(Nat) /\ Len(SubSeq(s, n + 1, Len(s))) = Len(s) - n
         /\ \A i \in 1..(Len(s) - n) : SubSeq(s, n + 1, Len(s))[i] = s[n + i]
         /\ n = Len(s) => SubSeq(s, n + 1, Len(s)) = <<>>
<1>1. /\ SubSeq(s, 1, n) \in Seq(Nat) /\ Len(SubSeq(s, 1, n)) = n
      /\ \A i \in 1..n : SubSeq(s, 1, n)[i] = s[i]
  OBVIOUS
<1>2. /\ SubSeq(s, n + 1, Len(s)) \in Seq(Nat) /\ Len(SubSeq(s, n + 1, Len(s))) = Len(s) - n
      /\ \A i \in 1..(Len(s) - n) : SubSeq(s, n + 1, Len(s))[i] = s[n + i]
  OBVIOUS
<1>3. n = Len(s) => SubSeq(s, n + 1, Len(s)) = <<>>
  BY <1>2
<1> QED BY <1>1, <1>2, <1>3

(* A read or a write that takes the first n bytes leaves two pieces.       *)
LEMMA PieceSplit ==
  ASSUME NEW s \in Seq(Nat), NEW t \in Seq(Nat), NEW at \in Nat, NEW n \in 0..Len(s),
         Piece(s, t, at)
  PROVE  /\ SubSeq(s, 1, n) \in Seq(Nat) /\ Len(SubSeq(s, 1, n)) = n
         /\ Piece(SubSeq(s, 1, n), t, at)
         /\ SubSeq(s, n + 1, Len(s)) \in Seq(Nat) /\ Len(SubSeq(s, n + 1, Len(s))) = Len(s) - n
         /\ Piece(SubSeq(s, n + 1, Len(s)), t, at + n)
<1>1. /\ SubSeq(s, 1, n) \in Seq(Nat) /\ Len(SubSeq(s, 1, n)) = n
      /\ \A i \in 1..n : SubSeq(s, 1, n)[i] = s[i]
  BY SeqSplit
<1>2. /\ SubSeq(s, n + 1, Len(s)) \in Seq(Nat) /\ Len(SubSeq(s, n + 1, Len(s))) = Len(s) - n
      /\ \A i \in 1..(Len(s) - n) : SubSeq(s, n + 1, Len(s))[i] = s[n + i]
  BY SeqSplit
<1>3. Piece(SubSeq(s, 1, n), t, at)
  <2>1. at + n <= Len(t) /\ \A i \in 1..n : s[i] = t[at + i]
    BY DEF Piece
  <2> QED BY <1>1, <2>1 DEF Piece
<1>4. Piece(SubSeq(s, n + 1, Len(s)), t, at + n)
  <2>1. at + n + (Len(s) - n) <= Len(t)
    BY DEF Piece
  <2>2. ASSUME NEW i \in 1..(Len(s) - n)
        PROVE  SubSeq(s, n + 1, Len(s))[i] = t[at + n + i]
    <3>1. n + i \in 1..Len(s) /\ at + (n + i) = at + n + i
      OBVIOUS
    <3> QED BY <1>2, <3>1 DEF Piece
  <2> QED BY <1>2, <2>1, <2>2 DEF Piece
<1> QED BY <1>1, <1>2, <1>3, <1>4

(* A piece put behind the one before it makes one longer piece.            *)
LEMMA PieceJoin ==
  ASSUME NEW s \in Seq(Nat), NEW r \in Seq(Nat), NEW t \in Seq(Nat), NEW at \in Nat,
         Piece(s, t, at), Piece(r, t, at + Len(s))
  PROVE  s \o r \in Seq(Nat) /\ Len(s \o r) = Len(s) + Len(r) /\ Piece(s \o r, t, at)
<1>1. s \o r \in Seq(Nat) /\ Len(s \o r) = Len(s) + Len(r)
  OBVIOUS
<1>2. ASSUME NEW i \in 1..(Len(s) + Len(r)) PROVE (s \o r)[i] = t[at + i]
  <2>1. CASE i <= Len(s)
    BY <2>1 DEF Piece
  <2>2. CASE i > Len(s)
    <3>1. i - Len(s) \in 1..Len(r) /\ at + Len(s) + (i - Len(s)) = at + i
      BY <2>2
    <3>2. (s \o r)[i] = r[i - Len(s)]
      BY <2>2
    <3> QED BY <3>1, <3>2 DEF Piece
  <2> QED BY <2>1, <2>2
<1> QED BY <1>1, <1>2 DEF Piece

(* What a read takes from position p on is the piece that begins there.    *)
LEMMA PieceRead ==
  ASSUME NEW t \in Seq(Nat), NEW p \in Nat, NEW n \in Nat, p + n <= Len(t)
  PROVE  /\ SubSeq(t, p + 1, p + n) \in Seq(Nat) /\ Len(SubSeq(t, p + 1, p + n)) = n
         /\ Piece(SubSeq(t, p + 1, p + n), t, p)
<1>1. p + 1 \in Nat /\ p + n \in Nat /\ \A i \in 1..n : p + i \in 1..Len(t) /\ t[p + i] \in Nat
  OBVIOUS
<1>2. Len(SubSeq(t, p + 1, p + n)) = n /\ \A i \in 1..n : SubSeq(t, p + 1, p + n)[i] = t[p + i]
  BY <1>1
<1>3. SubSeq(t, p + 1, p + n) \in Seq(Nat)
  BY <1>1
<1> QED BY <1>2, <1>3 DEF Piece

(* A piece that begins at the start is a prefix, and one as long as the    *)
(* whole is the whole.                                                     *)
LEMMA PieceFromStart ==
  ASSUME NEW s \in Seq(Nat), NEW t \in Seq(Nat), Piece(s, t, 0)
  PROVE  s = SubSeq(t, 1, Len(s)) /\ Len(s) \in 0..Len(t) /\ (Len(s) = Len(t) => s = t)
<1>1. Len(s) <= Len(t) /\ \A i \in 1..Len(s) : s[i] = t[i]
  BY DEF Piece
<1>2. /\ SubSeq(t, 1, Len(s)) \in Seq(Nat) /\ Len(SubSeq(t, 1, Len(s))) = Len(s)
      /\ \A i \in 1..Len(s) : SubSeq(t, 1, Len(s))[i] = t[i]
  BY <1>1
<1>3. s = SubSeq(t, 1, Len(s))
  BY <1>1, <1>2, SeqEqual
<1>4. Len(s) = Len(t) => s = t
  BY <1>1, SeqEqual
<1> QED BY <1>1, <1>3, <1>4

(* The empty sequence is a piece anywhere.                                 *)
LEMMA PieceEmpty ==
  ASSUME NEW t \in Seq(Nat), NEW n \in 0..Len(t)
  PROVE  Piece(<<>>, t, n)
BY DEF Piece

----------------------------------------------------------------------------
(* The invariant.                                                          *)

(* Nothing has been read, and no destination made.                         *)
LEMMA CopyInit == Init => CopyInv
<1> SUFFICES ASSUME Init PROVE CopyInv
  OBVIOUS
<1>1. prog \in {"copy_file", "copy_dir", "usage", "test", "download"}
  BY DEF Init, CopyMode
<1>2. source \in [Names -> Seq(Nat)] /\ file = source
  <2>1. PICK lens \in [Names -> 0..MaxLen] : source = [f \in Names |-> Bytes(lens[f])]
    BY DEF Init
  <2>2. \A n \in 0..MaxLen : Bytes(n) \in Seq(Nat)
    BY SizesAssumption DEF Bytes
  <2> QED BY <2>1, <2>2 DEF Init
<1>3. todo \subseteq Names /\ same \in BOOLEAN /\ cwd \subseteq Names /\ (prog = "download" => ~same)
  <2>1. todo \subseteq Names
    <3>1. todo \in {Names} \cup {{f} : f \in Names}
      BY DEF Init
    <3> QED BY <3>1
  <2>2. same \in BOOLEAN /\ (prog = "download" => ~same)
    <3>1. CASE prog = "download"
      BY <3>1 DEF Init
    <3>2. CASE prog # "download"
      BY <3>2 DEF Init
    <3> QED BY <3>1, <3>2
  <2>3. cwd \in {Names} \cup SUBSET Names
    BY DEF Init
  <2> QED BY <2>1, <2>2, <2>3
<1>4. CopyTypes
  <2>1. dst \in [Names -> {Absent, Old}] /\ mine = {} /\ unseen = FALSE /\ link = "none"
        /\ cur = Absent /\ pos = 0 /\ spc = "next"
        /\ sbuf = <<>> /\ rbuf = <<>> /\ sock = <<>>
    BY DEF Init
  <2>2. rpc \in Alive \cup {"off", "done", "failed"}
    BY DEF Init, Alive
  <2>3. cur \in Names \cup {Absent} /\ pos \in Nat /\ mine \subseteq Names
        /\ sbuf \in Seq(Nat) /\ rbuf \in Seq(Nat) /\ sock \in Seq(Nat)
    BY <2>1
  <2>4. DOMAIN dst = Names /\ \A f \in mine : dst[f] \in Seq(Nat)
    BY <2>1
  <2>5. /\ spc \in {"next", "open", "read", "write", "done", "failed"} /\ unseen \in BOOLEAN
        /\ link \in {"none", "open", "fin", "broken"}
    BY <2>1
  <2>6. file \in [Names -> Seq(Nat)]
    BY <1>2
  <2> QED BY <1>1, <1>2, <1>3, <2>2, <2>3, <2>4, <2>5, <2>6 DEF CopyTypes
<1>5. Roles
  <2>1. dst = [f \in Names |-> dst[f]] /\ mine = {} /\ cur = Absent /\ spc = "next" /\ sbuf = <<>>
    BY DEF Init
  <2>2. prog = "download" <=> rpc # "off"
    BY DEF Init
  <2> QED BY <1>2, <1>3, <2>1, <2>2, AbsentAssumption DEF Roles
<1>6. InOrder /\ LocalLoop
  BY DEF Init, InOrder, LocalLoop
<1>7. Pipeline
  <2>1. prog = "download" => todo # {}
    <3>1. prog = "download" => todo \in {{f} : f \in Names}
      BY DEF Init
    <3> QED BY <3>1
  <2> QED BY <2>1 DEF Init, Pipeline
<1>8. LoopsWhole
  BY <1>3, AbsentAssumption DEF Init, LoopsWhole
<1> QED BY <1>4, <1>5, <1>6, <1>7, <1>8 DEF CopyInv

(* A step that leaves the buffers, the destinations and the position alone *)
(* keeps what is in transit.                                               *)
LEMMA TransitKept ==
  ASSUME InTransit, UNCHANGED <<rbuf, sock, sbuf, source, mine, dst, cur, pos>>,
         spc' # "failed" => spc # "failed"
  PROVE  InTransit'
BY DEF InTransit, Written

\* The copy programs go on to the next file, or end.
LEMMA SNextKeeps == ASSUME CopyInv, SNext PROVE CopyInv'
<1> USE DEF CopyInv, receiver, Ends, Misled
<1>1. CopyTypes'
  BY DEF SNext, CopyTypes
<1>2. Roles'
  BY AbsentAssumption DEF SNext, CopyTypes, Roles
<1>3. InOrder'
  BY DEF SNext, InOrder
<1>4. LocalLoop'
  BY DEF SNext, Roles, LocalLoop
<1>5. Pipeline'
  BY DEF SNext, Pipeline
<1>6. LoopsWhole'
  BY DEF SNext, Roles, CopyTypes, LoopsWhole, Whole, Regular
<1> QED BY <1>1, <1>2, <1>3, <1>4, <1>5, <1>6

\* A directory that cannot be read leaves nothing to copy.
LEMMA SNoDirKeeps == ASSUME CopyInv, SNoDir PROVE CopyInv'
<1> USE DEF CopyInv, receiver
<1>1. CopyTypes' /\ Roles'
  BY DEF SNoDir, CopyTypes, Roles
<1>2. InOrder' /\ LocalLoop'
  BY DEF SNoDir, InOrder, LocalLoop
<1>3. Pipeline' /\ LoopsWhole'
  BY DEF SNoDir, Pipeline, LoopsWhole
<1> QED BY <1>1, <1>2, <1>3

\* The client connects while the server still accepts, or ends.
LEMMA SConnectKeeps == ASSUME CopyInv, SConnect PROVE CopyInv'
<1> USE DEF CopyInv, receiver, Ends
<1>1. CopyTypes'
  BY DEF SConnect, CopyTypes
<1>2. Roles'
  BY AbsentAssumption DEF SConnect, CopyTypes, Roles
<1>3. InOrder' /\ LocalLoop'
  BY DEF SConnect, InOrder, LocalLoop
<1>4. Pipeline'
  <2>1. CASE UNCHANGED <<todo, cur, pos>>
    <3>1. InTransit => InTransit'
      BY <2>1, TransitKept DEF SConnect
    <3> QED BY <2>1, <3>1 DEF SConnect, Pipeline, Roles, CopyTypes
  <2>2. CASE /\ rpc = "accept" /\ link' = "open"
             /\ cur' \in todo /\ todo' = {} /\ pos' = 0 /\ spc' = "open"
    <3>1. cur' \in Names /\ source[cur'] \in Seq(Nat) /\ mine' = {} /\ source' = source
      BY <2>2 DEF SConnect, Pipeline, Roles, CopyTypes
    <3>2. rbuf' = <<>> /\ sock' = <<>> /\ sbuf' = <<>>
      BY <2>2 DEF SConnect, Pipeline, Roles, CopyTypes
    <3>3. Piece(<<>>, source[cur'], 0)
      BY <3>1, PieceEmpty
    <3>4. InTransit'
      BY <2>2, <3>1, <3>2, <3>3 DEF InTransit, Written
    <3> QED BY <2>2, <3>4 DEF SConnect, Pipeline, Roles, CopyTypes
  <2> QED BY <2>1, <2>2 DEF SConnect
<1>5. LoopsWhole'
  BY DEF SConnect, LoopsWhole, Whole, Pipeline, Roles
<1> QED BY <1>1, <1>2, <1>3, <1>4, <1>5

\* Opening empties the destination, and the source with it if they are one.
LEMMA SOpenKeeps == ASSUME CopyInv, SOpen PROVE CopyInv'
<1> USE DEF CopyInv, receiver
<1>1. /\ cur \in Names /\ cur \notin todo /\ spc = "open" /\ source[cur] \in Seq(Nat)
      /\ prog # "download" => cur \notin mine
      /\ UNCHANGED <<prog, source, same, cwd, long, todo, cur, pos, sbuf, rpc, rbuf, sock, unseen>>
  BY DEF SOpen, CopyTypes, Roles, LocalLoop
<1>2. CASE spc' = "failed" /\ Ends("failed") /\ UNCHANGED <<file, dst, mine>>
  <2>1. InTransit => InTransit'
    BY <1>1, <1>2, TransitKept
  <2> QED BY <1>1, <1>2, <2>1 DEF Ends, CopyTypes, Roles, InOrder, LocalLoop, Pipeline, LoopsWhole, Whole
<1>3. CASE spc' = "read" /\ prog # "download" /\ Truncate(cur) /\ UNCHANGED link
  <2>1. /\ dst' = [dst EXCEPT ![cur] = <<>>] /\ mine' = mine \cup {cur}
        /\ file' = IF same THEN [file EXCEPT ![cur] = <<>>] ELSE file
    BY <1>3 DEF Truncate
  <2>2. CopyTypes'
    <3>1. file' \in [Names -> Seq(Nat)]
      BY <1>1, <2>1 DEF CopyTypes
    <3>2. mine' \subseteq Names /\ DOMAIN dst' = Names /\ \A f \in mine' : dst'[f] \in Seq(Nat)
      BY <1>1, <2>1 DEF CopyTypes
    <3> QED BY <1>1, <1>3, <3>1, <3>2 DEF CopyTypes
  <2>3. Roles'
    BY <1>1, <1>3, <2>1 DEF CopyTypes, Roles
  <2>4. Piece(<<>>, source[cur], 0)
    BY <1>1, PieceEmpty
  <2>5. InOrder'
    BY <1>1, <2>1, <2>4 DEF InOrder, CopyTypes
  <2>6. LocalLoop'
    BY <1>1, <1>3, <2>1, <2>4 DEF LocalLoop, CopyTypes, Roles
  <2>7. Pipeline' /\ LoopsWhole'
    BY <1>1, <1>3, <2>1 DEF Pipeline, LoopsWhole, Whole, Roles, CopyTypes
  <2> QED BY <2>2, <2>3, <2>5, <2>6, <2>7
<1>4. CASE spc' = "read" /\ prog = "download" /\ UNCHANGED <<link, file, dst, mine>>
  <2>1. InTransit => InTransit'
    BY <1>1, <1>4, TransitKept
  <2> QED BY <1>1, <1>4, <2>1 DEF CopyTypes, Roles, InOrder, LocalLoop, Pipeline, LoopsWhole, Whole
<1> QED BY <1>2, <1>3, <1>4 DEF SOpen, Ends, CopyOpens, TestOpens, ClientOpens

(* A read appends the next piece of the source to what has been read.      *)
LEMMA SReadKeeps == ASSUME CopyInv, SRead PROVE CopyInv'
<1> USE DEF CopyInv, receiver
<1> DEFINE n == Min({BuffSize, Len(file[cur]) - pos})
<1>1. /\ cur \in Names /\ spc = "read" /\ sbuf = <<>> /\ pos \in Nat
      /\ file[cur] \in Seq(Nat) /\ source[cur] \in Seq(Nat)
      /\ UNCHANGED <<prog, source, file, same, cwd, long, dst, mine, todo, cur, rpc, rbuf, sock, link>>
  BY DEF SRead, CopyTypes, Roles
<1>2. n \in {BuffSize, Len(file[cur]) - pos} /\ n <= Len(file[cur]) - pos /\ n \in Int
  <2>1. BuffSize \in Int /\ Len(file[cur]) - pos \in Int
    BY <1>1, SizesAssumption
  <2>2. n \in {BuffSize, Len(file[cur]) - pos} /\ n <= Len(file[cur]) - pos
    BY <2>1, MinOfTwo
  <2> QED BY <2>1, <2>2
<1>a. n = 0 => pos = Len(file[cur])
  BY <1>1, <1>2, SizesAssumption
<1>b. SRead => \/ /\ n > 0 /\ sbuf' = SubSeq(file[cur], pos + 1, pos + n)
                  /\ pos' = pos + n /\ spc' = "write" /\ unseen' = unseen
               \/ n = 0 /\ spc' = "next" /\ UNCHANGED <<sbuf, pos, unseen>>
               \/ spc' = "next" /\ unseen' = TRUE /\ UNCHANGED <<sbuf, pos>>
  BY DEF SRead
<1> HIDE DEF n
<1>3. CASE /\ n > 0 /\ sbuf' = SubSeq(file[cur], pos + 1, pos + n)
           /\ pos' = pos + n /\ spc' = "write" /\ unseen' = unseen
  <2>1. n \in Nat /\ pos + n <= Len(file[cur])
    BY <1>1, <1>2, <1>3
  <2>2. sbuf' \in Seq(Nat) /\ Len(sbuf') = n /\ Piece(sbuf', file[cur], pos)
    BY <1>1, <1>3, <2>1, PieceRead
  <2>3. CopyTypes' /\ Roles' /\ InOrder'
    <3>1. pos' \in Nat
      BY <1>1, <1>3, <2>1
    <3>2. CopyTypes'
      BY <1>1, <1>3, <2>2, <3>1 DEF CopyTypes
    <3>3. Roles' /\ InOrder'
      BY <1>1, <1>3 DEF CopyTypes, Roles, InOrder
    <3> QED BY <3>2, <3>3
  <2>4. ~same
    BY <1>1, <1>3, <2>1 DEF LocalLoop, CopyTypes, Roles
  <2>5. Piece(sbuf', source[cur], pos)
    BY <2>2, <2>4 DEF Roles
  <2>6. LocalLoop'
    BY <1>1, <1>3, <2>2, <2>4, <2>5 DEF LocalLoop, CopyTypes
  <2>7. InTransit => InTransit'
    <3>1. Written' = Written /\ Written \in Nat
      BY <1>1 DEF Written, CopyTypes
    <3>2. ASSUME InTransit PROVE pos = Written + Len(rbuf) + Len(sock)
      BY <1>1, <3>1, <3>2 DEF InTransit, CopyTypes
    <3>3. Len(rbuf) \in Nat /\ Len(sock) \in Nat
      BY DEF CopyTypes
    <3> QED BY <1>1, <1>3, <2>1, <2>2, <2>5, <3>1, <3>2, <3>3 DEF InTransit
  <2>8. Pipeline' /\ LoopsWhole'
    BY <1>1, <1>3, <2>7 DEF Pipeline, LoopsWhole, Whole
  <2> QED BY <2>3, <2>6, <2>8
<1>4. CASE n = 0 /\ spc' = "next" /\ UNCHANGED <<sbuf, pos, unseen>>
  <2>1. pos = Len(file[cur])
    BY <1>4, <1>a
  <2>2. CopyTypes' /\ Roles' /\ InOrder' /\ LocalLoop'
    BY <1>1, <1>4 DEF CopyTypes, Roles, InOrder, LocalLoop
  <2>3. InTransit => InTransit'
    BY <1>1, <1>4, TransitKept
  <2>4. ~same => pos = Len(source[cur])
    BY <2>1 DEF Roles
  <2>5. ~same /\ prog # "download" => Whole(cur)
    <3>1. ASSUME ~same, prog # "download"
          PROVE  /\ dst[cur] \in Seq(Nat) /\ Piece(dst[cur], source[cur], 0)
                 /\ Len(dst[cur]) = Len(source[cur])
      BY <1>1, <2>4, <3>1 DEF LocalLoop, CopyTypes, InOrder
    <3> QED BY <1>1, <3>1, PieceFromStart DEF Whole
  <2>6. Pipeline' /\ LoopsWhole'
    BY <1>1, <1>4, <2>3, <2>4, <2>5 DEF Pipeline, LoopsWhole, Whole
  <2> QED BY <2>2, <2>6
<1>5. CASE spc' = "next" /\ unseen' = TRUE /\ UNCHANGED <<sbuf, pos>>
  <2>1. CopyTypes' /\ Roles' /\ InOrder' /\ LocalLoop'
    BY <1>1, <1>5 DEF CopyTypes, Roles, InOrder, LocalLoop
  <2>2. InTransit => InTransit'
    BY <1>1, <1>5, TransitKept
  <2>3. Pipeline' /\ LoopsWhole'
    BY <1>1, <1>5, <2>2 DEF Pipeline, LoopsWhole
  <2> QED BY <2>1, <2>3
<1> QED BY <1>b, <1>3, <1>4, <1>5

(* A write to the destination appends the piece that comes next in it.     *)
LEMMA SWriteKeeps == ASSUME CopyInv, SWrite PROVE CopyInv'
<1> USE DEF CopyInv, receiver
<1>1. PICK n \in 0..Len(sbuf) :
        /\ dst' = [dst EXCEPT ![cur] = dst[cur] \o SubSeq(sbuf, 1, n)]
        /\ IF n = Len(sbuf) THEN spc' = "read" /\ UNCHANGED link ELSE Ends("failed")
  BY DEF SWrite
<1>2. /\ spc = "write" /\ prog # "download" /\ sbuf' = <<>> /\ ~same /\ link' = link
      /\ cur \in Names /\ cur \in mine /\ spc' \in {"read", "failed"}
      /\ file' = file
      /\ UNCHANGED <<prog, source, same, cwd, long, mine, todo, cur, pos, rpc, rbuf, sock, unseen>>
  BY <1>1 DEF SWrite, LocalLoop, Roles, Ends
<1>3. /\ sbuf \in Seq(Nat) /\ source[cur] \in Seq(Nat) /\ dst[cur] \in Seq(Nat)
      /\ Piece(dst[cur], source[cur], 0) /\ Piece(sbuf, source[cur], Len(dst[cur]))
      /\ pos = Len(dst[cur]) + Len(sbuf)
  BY <1>2 DEF CopyTypes, InOrder, LocalLoop
<1>4. /\ SubSeq(sbuf, 1, n) \in Seq(Nat) /\ Len(SubSeq(sbuf, 1, n)) = n
      /\ Piece(SubSeq(sbuf, 1, n), source[cur], Len(dst[cur]))
  BY <1>3, PieceSplit
<1>5. dst'[cur] = dst[cur] \o SubSeq(sbuf, 1, n) /\ \A f \in Names \ {cur} : dst'[f] = dst[f]
  BY <1>1, <1>2 DEF CopyTypes
<1>6. dst'[cur] \in Seq(Nat) /\ Len(dst'[cur]) = Len(dst[cur]) + n /\ Piece(dst'[cur], source[cur], 0)
  <2> DEFINE r == SubSeq(sbuf, 1, n)
  <2>1. r \in Seq(Nat) /\ Len(r) = n /\ Piece(r, source[cur], 0 + Len(dst[cur]))
    BY <1>3, <1>4
  <2> HIDE DEF r
  <2>2. /\ dst[cur] \o r \in Seq(Nat) /\ Len(dst[cur] \o r) = Len(dst[cur]) + Len(r)
        /\ Piece(dst[cur] \o r, source[cur], 0)
    BY <1>3, <2>1, PieceJoin
  <2> QED BY <1>5, <2>1, <2>2 DEF r
<1>7. CopyTypes'
  <2>1. DOMAIN dst' = Names /\ \A f \in mine : dst'[f] \in Seq(Nat)
    BY <1>1, <1>2, <1>5, <1>6 DEF CopyTypes
  <2> QED BY <1>2, <2>1 DEF CopyTypes
<1>8. Roles' /\ InOrder'
  BY <1>1, <1>2, <1>5, <1>6 DEF Roles, InOrder, CopyTypes
<1>9. LocalLoop'
  <2>1. CASE n = Len(sbuf)
    <3>1. Piece(<<>>, source[cur], Len(dst'[cur]))
      BY <1>3, <1>6, PieceEmpty DEF Piece
    <3> QED BY <1>1, <1>2, <1>3, <1>6, <2>1, <3>1 DEF LocalLoop
  <2>2. CASE n # Len(sbuf)
    BY <1>1, <1>2, <2>2 DEF LocalLoop, Ends
  <2> QED BY <2>1, <2>2
<1>10. Pipeline' /\ LoopsWhole'
  BY <1>2, <1>5 DEF Pipeline, LoopsWhole, Whole, Roles, CopyTypes
<1> QED BY <1>7, <1>8, <1>9, <1>10

(* A write to the socket moves a piece from the buffer to its end.         *)
LEMMA SSendKeeps == ASSUME CopyInv, SSend PROVE CopyInv'
<1> USE DEF CopyInv, receiver
<1>1. /\ spc = "write" /\ prog = "download" /\ cur \in Names
      /\ sbuf \in Seq(Nat) /\ sock \in Seq(Nat) /\ rbuf \in Seq(Nat) /\ source[cur] \in Seq(Nat)
      /\ UNCHANGED <<prog, source, file, same, cwd, long, dst, mine, todo, cur, pos, rpc, rbuf, link, unseen>>
  BY DEF SSend, CopyTypes, Roles
<1>2. CASE link = "broken" /\ spc' \in {"read", "failed"} /\ sbuf' = <<>> /\ UNCHANGED sock
  <2>1. CopyTypes'
    BY <1>1, <1>2 DEF CopyTypes
  <2>2. Roles' /\ InOrder'
    BY <1>1, <1>2 DEF Roles, InOrder
  <2>3. LocalLoop' /\ Pipeline' /\ LoopsWhole'
    BY <1>1, <1>2 DEF LocalLoop, Pipeline, LoopsWhole
  <2> QED BY <2>1, <2>2, <2>3
<1>3. ASSUME link = "open", NEW n \in 1..Min({Len(sbuf), SockCap - Len(sock)}),
             sock' = sock \o SubSeq(sbuf, 1, n),
             sbuf' = SubSeq(sbuf, n + 1, Len(sbuf)),
             spc' = IF n = Len(sbuf) THEN "read" ELSE "write"
      PROVE  CopyInv'
  <2>1. n \in 0..Len(sbuf)
    <3>1. Len(sbuf) \in Int /\ SockCap - Len(sock) \in Int
      BY <1>1, SizesAssumption
    <3>2. Min({Len(sbuf), SockCap - Len(sock)}) \in {Len(sbuf), SockCap - Len(sock)}
          /\ Min({Len(sbuf), SockCap - Len(sock)}) <= Len(sbuf)
      BY <3>1, MinOfTwo
    <3> QED BY <1>3, <3>1, <3>2
  <2> DEFINE r == SubSeq(sbuf, 1, n)
             at == Written + Len(rbuf)
  <2>2. /\ r \in Seq(Nat) /\ Len(r) = n
        /\ sbuf' \in Seq(Nat) /\ Len(sbuf') = Len(sbuf) - n
        /\ (n = Len(sbuf) => sbuf' = <<>>)
    BY <1>1, <1>3, <2>1, SeqSplit
  <2>3. sock' \in Seq(Nat) /\ Len(sock') = Len(sock) + n
    BY <1>1, <1>3, <2>2
  <2>4. CopyTypes'
    BY <1>1, <1>3, <2>2, <2>3 DEF CopyTypes
  <2>5. Roles' /\ InOrder'
    BY <1>1, <1>3, <2>2 DEF Roles, InOrder, CopyTypes
  <2>6. InTransit => InTransit'
    <3> SUFFICES ASSUME InTransit PROVE InTransit'
      OBVIOUS
    <3>1. Written \in Nat /\ at \in Nat /\ Written' = Written
      BY <1>1 DEF Written, CopyTypes
    <3>2. Piece(sock, source[cur], at) /\ Piece(sbuf, source[cur], at + Len(sock))
      BY DEF InTransit
    <3>3. at + Len(sock) \in Nat
      BY <1>1, <3>1
    <3> HIDE DEF at
    <3>4. Piece(r, source[cur], at + Len(sock)) /\ Piece(sbuf', source[cur], at + Len(sock) + n)
      BY <1>1, <1>3, <2>1, <3>2, <3>3, PieceSplit
    <3> HIDE DEF r
    <3>5. Piece(sock \o r, source[cur], at)
      BY <1>1, <2>2, <3>1, <3>2, <3>4, PieceJoin
    <3>6. sock' = sock \o r
      BY <1>3 DEF r
    <3>7. at + Len(sock') = at + Len(sock) + n
      BY <1>1, <2>3, <3>1
    <3>8. Piece(sock', source[cur], at) /\ Piece(sbuf', source[cur], at + Len(sock'))
      BY <3>4, <3>5, <3>6, <3>7
    <3>9. pos = at + Len(sock) + Len(sbuf)
      BY <1>1 DEF InTransit, at
    <3>10. pos' = at + Len(sock') + Len(sbuf')
      BY <1>1, <2>1, <2>2, <2>3, <3>1, <3>9
    <3> QED BY <1>1, <3>1, <3>8, <3>10 DEF InTransit, at
  <2>7. LocalLoop' /\ Pipeline' /\ LoopsWhole'
    BY <1>1, <1>3, <2>6 DEF LocalLoop, Pipeline, LoopsWhole, Whole
  <2> QED BY <2>4, <2>5, <2>7
<1> QED BY <1>2, <1>3 DEF SSend

\* A sender that is killed loses what it has read and not sent.
LEMMA SKilledKeeps == ASSUME CopyInv, SKilled PROVE CopyInv'
<1> USE DEF CopyInv, receiver
<1>1. /\ spc \notin {"done", "failed"} /\ spc' = "failed" /\ sbuf' = <<>>
      /\ link' = IF link = "open" THEN "fin" ELSE link
      /\ UNCHANGED <<prog, source, file, same, cwd, long, dst, mine, todo, cur, pos, rpc, rbuf, sock, unseen>>
  BY DEF SKilled, Ends
<1>2. CopyTypes' /\ Roles' /\ InOrder' /\ LocalLoop'
  <2>1. CopyTypes'
    BY <1>1 DEF CopyTypes
  <2>2. Roles' /\ InOrder'
    BY <1>1 DEF Roles, InOrder
  <2>3. LocalLoop'
    BY <1>1 DEF LocalLoop
  <2> QED BY <2>1, <2>2, <2>3
<1>3. ASSUME InTransit, cur \in Names PROVE InTransit'
  <2>1. Written' = Written
    BY <1>1 DEF Written
  <2>2. Written \in Nat /\ Len(rbuf) \in Nat /\ Len(sock) \in Nat /\ source[cur] \in Seq(Nat)
    BY <1>3 DEF Written, CopyTypes
  <2>3. Written + Len(rbuf) + Len(sock) \in 0..Len(source[cur])
    BY <1>3, <2>2 DEF InTransit, Piece
  <2>4. Piece(<<>>, source[cur], Written + Len(rbuf) + Len(sock))
    BY <2>2, <2>3, PieceEmpty
  <2> QED BY <1>1, <1>3, <2>1, <2>4 DEF InTransit
<1>4. Pipeline' /\ LoopsWhole'
  BY <1>1, <1>3 DEF Pipeline, LoopsWhole, Whole, Roles
<1> QED BY <1>2, <1>4

----------------------------------------------------------------------------
(* The receiver.                                                           *)

(* Once a client has connected, the target is the file it sends.           *)
LEMMA TargetIsCur ==
  ASSUME cur \in Names, todo = {}
  PROVE  Target = cur
<1>1. \A f \in Names : (todo = {f} \/ cur = f) <=> f = cur
  OBVIOUS
<1> QED BY <1>1 DEF Target

(* A receiver that has ended takes nothing more from the connection.       *)
LEMMA GoneKeeps ==
  ASSUME CopyInv, prog = "download", rpc \in Alive, NEW how \in {"done", "failed"}, RGone(how),
         unseen' \in BOOLEAN, unseen => unseen',
         how = "done" => /\ rpc = "read"
                         /\ unseen' \/ (link = "fin" /\ (spc = "done" => Whole(cur)')),
         UNCHANGED <<prog, source, file, same, cwd, long, mine, sender, sock>>,
         dst' = [f \in Names |-> dst'[f]],
         \A f \in mine : dst'[f] \in Seq(Nat) /\ Piece(dst'[f], source[f], 0)
  PROVE  CopyInv'
<1> USE DEF CopyInv, sender
<1>1. /\ rpc' = how /\ rbuf' = <<>> /\ rpc' \notin Alive /\ rpc' # "off"
      /\ link' = IF link = "open" THEN "broken" ELSE link
  BY DEF RGone, Alive
<1>2. CopyTypes'
  BY <1>1 DEF CopyTypes
<1>3. Roles' /\ InOrder' /\ LocalLoop'
  BY <1>1 DEF Roles, InOrder, LocalLoop, Alive
<1>4. Pipeline'
  <2>1. rpc' \notin {"read", "write", "accept"}
    BY <1>1 DEF Alive
  <2>2. link = "none" => how = "failed"
    BY DEF Pipeline
  <2> QED BY <1>1, <2>1, <2>2 DEF Pipeline
<1>5. LoopsWhole'
  BY <1>1 DEF LoopsWhole, Whole, Pipeline
<1> QED BY <1>2, <1>3, <1>4, <1>5

\* The server makes its file, or ends if the name is taken.
LEMMA RAcceptKeeps == ASSUME CopyInv, RAccept PROVE CopyInv'
<1>1. /\ rpc = "accept" /\ link # "none" /\ prog = "download" /\ cur \in Names /\ todo = {}
      /\ link # "broken" /\ mine = {} /\ rbuf = <<>> /\ InTransit /\ source[cur] \in Seq(Nat)
      /\ UNCHANGED <<prog, source, file, same, cwd, long, sender, sock, unseen>>
  BY DEF RAccept, CopyInv, CopyTypes, Roles, Pipeline, Alive
<1>2. Target = cur
  BY <1>1, TargetIsCur
<1>3. CASE /\ dst' = [dst EXCEPT ![cur] = <<>>] /\ mine' = mine \cup {cur} /\ rpc' = "read"
           /\ UNCHANGED <<rbuf, link>>
  <2> USE DEF CopyInv, sender
  <2>1. dst'[cur] = <<>> /\ mine' = {cur}
    BY <1>1, <1>3 DEF CopyTypes
  <2>2. CopyTypes'
    BY <1>1, <1>3, <2>1 DEF CopyTypes, Alive
  <2>3. Roles'
    BY <1>1, <1>3, <2>1 DEF Roles, CopyTypes
  <2>4. InOrder' /\ LocalLoop'
    BY <1>1, <2>1, PieceEmpty DEF InOrder, LocalLoop
  <2>5. InTransit'
    <3>1. Written = 0 /\ Written' = 0
      BY <1>1, <2>1 DEF Written
    <3> QED BY <1>1, <1>3, <3>1 DEF InTransit
  <2>6. Pipeline' /\ LoopsWhole'
    BY <1>1, <1>3, <2>1, <2>5 DEF Pipeline, LoopsWhole
  <2> QED BY <2>2, <2>3, <2>4, <2>6
<1>4. CASE RGone("failed") /\ UNCHANGED <<dst, mine>>
  <2>1. /\ dst' = [f \in Names |-> dst'[f]] /\ unseen' \in BOOLEAN
        /\ \A f \in mine : dst'[f] \in Seq(Nat) /\ Piece(dst'[f], source[f], 0)
    BY <1>1, <1>4 DEF CopyInv, CopyTypes, Roles, InOrder
  <2>2. rpc \in Alive
    BY <1>1 DEF Alive
  <2> QED BY <1>1, <1>4, <2>1, <2>2, GoneKeeps
<1> QED BY <1>2, <1>3, <1>4 DEF RAccept

\* A receiver that is killed leaves what it has written.
LEMMA RKilledKeeps == ASSUME CopyInv, RKilled PROVE CopyInv'
<1>1. /\ rpc \in Alive /\ RGone("failed") /\ prog = "download"
      /\ UNCHANGED <<prog, source, file, same, cwd, long, dst, mine, sender, sock, unseen>>
  BY DEF RKilled, Alive, CopyInv, Roles
<1>2. /\ dst' = [f \in Names |-> dst'[f]] /\ unseen' \in BOOLEAN
      /\ \A f \in mine : dst'[f] \in Seq(Nat) /\ Piece(dst'[f], source[f], 0)
  BY <1>1 DEF CopyInv, CopyTypes, Roles, InOrder
<1> QED BY <1>1, <1>2, GoneKeeps

(* A read takes the next piece from the socket; at end of file nothing is  *)
(* left in it, and a sender that has finished has read everything.         *)
LEMMA RReadKeeps == ASSUME CopyInv, RRead PROVE CopyInv'
<1>1. /\ rpc = "read" /\ rpc \in Alive /\ prog = "download" /\ cur \in Names /\ cur \in mine /\ link # "none"
      /\ link # "broken" /\ rbuf = <<>> /\ InTransit /\ source[cur] \in Seq(Nat) /\ dst[cur] \in Seq(Nat)
      /\ sock \in Seq(Nat) /\ ~same
      /\ UNCHANGED <<prog, source, file, same, cwd, long, dst, mine, sender, unseen>>
  BY DEF RRead, CopyInv, CopyTypes, Roles, Pipeline, Alive
<1>2. /\ dst' = [f \in Names |-> dst'[f]]
      /\ \A f \in mine : dst'[f] \in Seq(Nat) /\ Piece(dst'[f], source[f], 0)
  BY <1>1 DEF CopyInv, CopyTypes, Roles, InOrder
<1>3. ASSUME NEW n \in 1..Min({BuffSize, Len(sock)}),
             rbuf' = SubSeq(sock, 1, n), sock' = SubSeq(sock, n + 1, Len(sock)),
             rpc' = "write", UNCHANGED link
      PROVE  CopyInv'
  <2>1. n \in 0..Len(sock)
    <3>1. BuffSize \in Int /\ Len(sock) \in Int
      BY <1>1, SizesAssumption
    <3>2. Min({BuffSize, Len(sock)}) \in {BuffSize, Len(sock)} /\ Min({BuffSize, Len(sock)}) <= Len(sock)
      BY <3>1, MinOfTwo
    <3> QED BY <1>3, <3>1, <3>2
  <2>2. Written \in Nat /\ Written' = Written /\ Piece(sock, source[cur], Written)
    <3>1. Written \in Nat /\ Written' = Written
      BY <1>1 DEF Written, sender
    <3>2. Written + Len(rbuf) = Written
      BY <1>1, <3>1
    <3> QED BY <1>1, <3>1, <3>2 DEF InTransit
  <2>3. /\ rbuf' \in Seq(Nat) /\ Len(rbuf') = n /\ Piece(rbuf', source[cur], Written)
        /\ sock' \in Seq(Nat) /\ Len(sock') = Len(sock) - n /\ Piece(sock', source[cur], Written + n)
    <3>1. /\ SubSeq(sock, 1, n) \in Seq(Nat) /\ Len(SubSeq(sock, 1, n)) = n
          /\ Piece(SubSeq(sock, 1, n), source[cur], Written)
          /\ SubSeq(sock, n + 1, Len(sock)) \in Seq(Nat) /\ Len(SubSeq(sock, n + 1, Len(sock))) = Len(sock) - n
          /\ Piece(SubSeq(sock, n + 1, Len(sock)), source[cur], Written + n)
      BY <1>1, <2>1, <2>2, PieceSplit
    <3> QED BY <1>3, <3>1
  <2> USE DEF CopyInv, sender
  <2>4. CopyTypes'
    BY <1>1, <1>3, <2>3 DEF CopyTypes, Alive
  <2>5. Roles' /\ InOrder' /\ LocalLoop'
    BY <1>1, <1>3 DEF Roles, InOrder, LocalLoop
  <2>6. InTransit'
    <3>1. Written + Len(rbuf) + Len(sock) = Written + Len(rbuf') + Len(sock')
      BY <1>1, <2>1, <2>2, <2>3
    <3> QED BY <1>1, <2>2, <2>3, <3>1 DEF InTransit
  <2>7. Pipeline' /\ LoopsWhole'
    BY <1>1, <1>3, <2>6 DEF Pipeline, LoopsWhole, Whole
  <2> QED BY <2>4, <2>5, <2>7
<1>4. CASE sock = <<>> /\ link = "fin" /\ RGone("done") /\ UNCHANGED sock
  <2>1. ASSUME spc = "done", ~unseen PROVE Whole(cur)
    <3>1. pos = Len(source[cur]) /\ sbuf = <<>>
      BY <1>1, <2>1 DEF CopyInv, LoopsWhole, Roles
    <3>2. Len(dst[cur]) = Len(source[cur])
      BY <1>1, <1>4, <2>1, <3>1 DEF InTransit, Written
    <3> QED BY <1>1, <1>2, <3>2, PieceFromStart DEF Whole
  <2>2. unseen' \in BOOLEAN /\ (unseen' \/ (spc = "done" => Whole(cur)'))
    BY <1>1, <1>4, <2>1 DEF CopyInv, CopyTypes, Whole, sender
  <2> QED BY <1>1, <1>2, <1>4, <2>2, GoneKeeps
<1> QED BY <1>3, <1>4 DEF RRead

\* A read that fails ends the loop with what has been written.
LEMMA RReadFailsKeeps == ASSUME CopyInv, RReadFails PROVE CopyInv'
<1>1. /\ rpc = "read" /\ rpc \in Alive /\ RGone("done") /\ prog = "download" /\ unseen' = TRUE
      /\ UNCHANGED <<prog, source, file, same, cwd, long, dst, mine, sender, sock>>
  BY DEF RReadFails, Alive, CopyInv, Roles
<1>2. /\ dst' = [f \in Names |-> dst'[f]]
      /\ \A f \in mine : dst'[f] \in Seq(Nat) /\ Piece(dst'[f], source[f], 0)
  BY <1>1 DEF CopyInv, CopyTypes, Roles, InOrder
<1> QED BY <1>1, <1>2, GoneKeeps

(* A write appends a piece of what was read to the destination.            *)
LEMMA RWriteKeeps == ASSUME CopyInv, RWrite PROVE CopyInv'
<1>1. /\ rpc = "write" /\ rpc \in Alive /\ prog = "download" /\ cur \in Names /\ cur \in mine /\ link # "none"
      /\ todo = {} /\ link # "broken" /\ InTransit /\ source[cur] \in Seq(Nat) /\ dst[cur] \in Seq(Nat)
      /\ rbuf \in Seq(Nat) /\ sock \in Seq(Nat)
      /\ UNCHANGED <<prog, source, file, same, cwd, long, mine, sender, sock, unseen>>
  BY DEF RWrite, CopyInv, CopyTypes, Roles, Pipeline, Alive
<1>2. Target = cur
  BY <1>1, TargetIsCur
<1>3. PICK n \in 0..Len(rbuf) :
        /\ dst' = [dst EXCEPT ![cur] = dst[cur] \o SubSeq(rbuf, 1, n)]
        /\ IF n = Len(rbuf) THEN rpc' = "read" /\ rbuf' = <<>> /\ UNCHANGED link
                            ELSE RGone("failed")
  BY <1>2 DEF RWrite
<1>4. /\ Written = Len(dst[cur]) /\ Piece(rbuf, source[cur], Len(dst[cur])) /\ Piece(dst[cur], source[cur], 0)
      /\ Len(dst[cur]) \in Nat
  BY <1>1 DEF InTransit, Written, CopyInv, InOrder
<1>5. dst'[cur] \in Seq(Nat) /\ Len(dst'[cur]) = Len(dst[cur]) + n /\ Piece(dst'[cur], source[cur], 0)
  <2> DEFINE r == SubSeq(rbuf, 1, n)
  <2>1. r \in Seq(Nat) /\ Len(r) = n /\ Piece(r, source[cur], 0 + Len(dst[cur]))
    BY <1>1, <1>4, PieceSplit
  <2>2. dst'[cur] = dst[cur] \o r
    BY <1>1, <1>3 DEF CopyInv, CopyTypes
  <2> HIDE DEF r
  <2>3. /\ dst[cur] \o r \in Seq(Nat) /\ Len(dst[cur] \o r) = Len(dst[cur]) + Len(r)
        /\ Piece(dst[cur] \o r, source[cur], 0)
    BY <1>1, <1>4, <2>1, PieceJoin
  <2> QED BY <2>1, <2>2, <2>3
<1>6. /\ dst' = [f \in Names |-> dst'[f]] /\ \A f \in Names \ {cur} : dst'[f] = dst[f]
      /\ \A f \in mine : dst'[f] \in Seq(Nat) /\ Piece(dst'[f], source[f], 0)
  BY <1>1, <1>3, <1>5 DEF CopyInv, CopyTypes, Roles, InOrder
<1>7. CASE n = Len(rbuf)
  <2>1. rpc' = "read" /\ rbuf' = <<>> /\ link' = link
    BY <1>3, <1>7
  <2> USE DEF CopyInv, sender
  <2>2. CopyTypes'
    BY <1>1, <1>6, <2>1 DEF CopyTypes, Alive
  <2>3. Roles' /\ InOrder' /\ LocalLoop'
    BY <1>1, <1>6, <2>1 DEF Roles, InOrder, LocalLoop
  <2>4. InTransit'
    <3>1. Written' = Written + Len(rbuf) /\ Written' + Len(rbuf') = Written + Len(rbuf) /\ Written' \in Nat
      BY <1>1, <1>4, <1>5, <1>7, <2>1 DEF Written
    <3>2. Written' <= Len(source[cur])
      BY <1>1, <1>4, <3>1 DEF Piece
    <3>3. Piece(<<>>, source[cur], Written')
      BY <1>1, <3>1, <3>2, PieceEmpty
    <3> QED BY <1>1, <2>1, <3>1, <3>3 DEF InTransit
  <2>5. Pipeline' /\ LoopsWhole'
    BY <1>1, <1>6, <2>1, <2>4 DEF Pipeline, LoopsWhole, Whole
  <2> QED BY <2>2, <2>3, <2>5
<1>8. CASE n # Len(rbuf)
  <2>1. RGone("failed")
    BY <1>3, <1>8
  <2>2. unseen' \in BOOLEAN
    BY <1>1 DEF CopyInv, CopyTypes
  <2> QED BY <1>1, <1>6, <2>1, <2>2, GoneKeeps
<1> QED BY <1>7, <1>8

(* Every action keeps the invariant.                                       *)
LEMMA CopyStep == CopyInv /\ [Next]_vars => CopyInv'
<1> SUFFICES ASSUME CopyInv, [Next]_vars PROVE CopyInv'
  OBVIOUS
<1>1. CASE UNCHANGED vars
  <2> USE <1>1 DEF vars, sender, receiver, CopyInv
  <2>1. CopyTypes'
    BY DEF CopyTypes
  <2>2. Roles'
    BY DEF Roles
  <2>3. InOrder' /\ LocalLoop'
    BY DEF InOrder, LocalLoop
  <2>4. Pipeline' /\ LoopsWhole'
    BY TransitKept DEF Pipeline, LoopsWhole, Whole
  <2> QED BY <2>1, <2>2, <2>3, <2>4
<1>2. CASE SNext \/ SNoDir \/ SConnect \/ SOpen \/ SRead \/ SWrite \/ SSend \/ SKilled
  BY <1>2, SNextKeeps, SNoDirKeeps, SConnectKeeps, SOpenKeeps, SReadKeeps, SWriteKeeps,
     SSendKeeps, SKilledKeeps
<1>3. CASE RAccept \/ RRead \/ RReadFails \/ RWrite \/ RKilled
  BY <1>3, RAcceptKeeps, RReadKeeps, RReadFailsKeeps, RWriteKeeps, RKilledKeeps
<1> QED BY <1>1, <1>2, <1>3 DEF Next

(* The invariant holds in every reachable state.                           *)
THEOREM CopyInvariant == Spec => []CopyInv
BY CopyInit, CopyStep, PTL DEF Spec

(* When every process has ended well and no failure went unseen, every     *)
(* file that was asked for has arrived whole, unless it is its own copy or  *)
(* one of those copy_dir misses.                                           *)
THEOREM EndedWhole == Spec => []SuccessIsWhole
<1>1. CopyInv => SuccessIsWhole
  <2> SUFFICES ASSUME CopyInv, Ended, ~unseen, ~same, NEW f \in Asked, ~Missed(f)
               PROVE  Whole(f)
    BY DEF SuccessIsWhole, Whole
  <2>1. spc = "done" /\ todo = {} /\ rpc \in {"off", "done"}
    BY DEF Ended, CopyInv, Roles
  <2>2. CASE prog = "copy_dir"
    BY <2>1, <2>2 DEF CopyInv, LoopsWhole, Asked, Missed, Regular
  <2>3. CASE prog \in {"copy_file", "test"}
    BY <2>1, <2>3 DEF CopyInv, LoopsWhole, Asked
  <2>4. CASE prog = "download"
    BY <2>1, <2>4 DEF CopyInv, Roles, LoopsWhole, Asked
  <2>5. prog # "usage"
    BY <2>1 DEF CopyInv, Roles
  <2> QED BY <2>2, <2>3, <2>4, <2>5 DEF CopyInv, CopyTypes
<1> QED BY <1>1, CopyInvariant, PTL

----------------------------------------------------------------------------
(* The refinement: the destinations are the output of ByteStream.          *)

Out == [f \in Names |-> IF f \in mine THEN dst[f] ELSE <<>>]

(* A step that only makes a destination longer delivers the bytes that are *)
(* new.                                                                    *)
LEMMA GrowthDelivers ==
  ASSUME CopyInv, CopyInv', NEW f \in Names, f \in mine, UNCHANGED <<source, mine>>,
         NEW r \in Seq(Nat), dst' = [dst EXCEPT ![f] = dst[f] \o r]
  PROVE  Stream!Deliver(f)
<1>1. /\ dst[f] \in Seq(Nat) /\ dst'[f] \in Seq(Nat) /\ source[f] \in Seq(Nat)
      /\ Piece(dst'[f], source[f], 0)
  BY DEF CopyInv, CopyTypes, InOrder
<1>2. dst'[f] = dst[f] \o r /\ \A g \in Names \ {f} : dst'[g] = dst[g]
  BY DEF CopyInv, CopyTypes
<1>3. Len(dst[f]) <= Len(dst[f] \o r)
  BY <1>1
<1>4. dst'[f] = SubSeq(source[f], 1, Len(dst'[f])) /\ Len(dst'[f]) \in Len(dst[f])..Len(source[f])
  <2>1. Len(dst[f]) \in Nat /\ Len(dst'[f]) \in Nat /\ Len(dst[f]) <= Len(dst'[f])
    BY <1>1, <1>2, <1>3
  <2>2. dst'[f] = SubSeq(source[f], 1, Len(dst'[f])) /\ Len(dst'[f]) \in 0..Len(source[f])
    BY <1>1, PieceFromStart
  <2> QED BY <2>1, <2>2
<1>5. Out' = [Out EXCEPT ![f] = dst'[f]] /\ Out[f] = dst[f]
  BY <1>2 DEF Out
<1> QED BY <1>4, <1>5 DEF Stream!Deliver, Out

(* Every step delivers bytes of one file, or nothing.                      *)
LEMMA StepDelivers ==
  ASSUME CopyInv, CopyInv', [Next]_vars
  PROVE  Stream!Next \/ UNCHANGED <<source, Out>>
<1> USE DEF sender, receiver
<1>1. CASE UNCHANGED <<source, dst, mine>>
  BY <1>1 DEF Out
<1>2. CASE SOpen
  <2>1. cur \in Names /\ source' = source /\ (prog # "download" => cur \notin mine)
    BY <1>2 DEF SOpen, CopyInv, Roles, LocalLoop
  <2>2. CASE UNCHANGED <<dst, mine>>
    BY <2>1, <2>2, <1>1
  <2>3. CASE prog # "download" /\ Truncate(cur)
    BY <2>1, <2>3 DEF Truncate, Out, CopyInv, CopyTypes
  <2> QED BY <1>2, <2>2, <2>3 DEF SOpen, CopyOpens, TestOpens, ClientOpens
<1>3. CASE RAccept
  <2>1. /\ cur \in Names /\ todo = {} /\ mine = {} /\ source' = source
    BY <1>3 DEF RAccept, CopyInv, Roles, Pipeline
  <2>2. Target = cur
    BY <2>1, TargetIsCur
  <2> QED BY <1>3, <2>1, <2>2, <1>1 DEF RAccept, Out, CopyInv, CopyTypes
<1>4. CASE SWrite
  <2>1. /\ cur \in Names /\ cur \in mine /\ UNCHANGED <<source, mine>> /\ sbuf \in Seq(Nat)
    BY <1>4 DEF SWrite, CopyInv, CopyTypes, Roles, LocalLoop
  <2>2. PICK f \in Names : f = cur
    BY <2>1
  <2>3. PICK n \in 0..Len(sbuf) : dst' = [dst EXCEPT ![f] = dst[f] \o SubSeq(sbuf, 1, n)]
    BY <1>4, <2>1, <2>2 DEF SWrite
  <2>4. SubSeq(sbuf, 1, n) \in Seq(Nat)
    BY <2>1, SeqSplit
  <2>5. Stream!Deliver(f)
    BY <2>1, <2>2, <2>3, <2>4, GrowthDelivers
  <2> QED BY <2>5 DEF Stream!Next
<1>5. CASE RWrite
  <2>1. /\ cur \in Names /\ cur \in mine /\ UNCHANGED <<source, mine>> /\ rbuf \in Seq(Nat) /\ todo = {}
    BY <1>5 DEF RWrite, CopyInv, CopyTypes, Roles, Pipeline
  <2>2. PICK f \in Names : f = cur
    BY <2>1
  <2>3. PICK n \in 0..Len(rbuf) : dst' = [dst EXCEPT ![f] = dst[f] \o SubSeq(rbuf, 1, n)]
    BY <1>5, <2>1, <2>2, TargetIsCur DEF RWrite
  <2>4. SubSeq(rbuf, 1, n) \in Seq(Nat)
    BY <2>1, SeqSplit
  <2>5. Stream!Deliver(f)
    BY <2>1, <2>2, <2>3, <2>4, GrowthDelivers
  <2> QED BY <2>5 DEF Stream!Next
<1>6. CASE SNext \/ SNoDir \/ SConnect \/ SRead \/ SSend \/ SKilled \/ RRead \/ RReadFails \/ RKilled \/ UNCHANGED vars
  BY <1>1, <1>6 DEF SNext, SNoDir, SConnect, SRead, SSend, SKilled, RRead, RReadFails, RKilled, vars
<1> QED BY <1>2, <1>3, <1>4, <1>5, <1>6 DEF Next

(* Copying implements ByteStream: whatever fails, the bytes of each file   *)
(* come out in order, none twice and none left out.                        *)
THEOREM CopyImplements == Spec => Implements
<1>1. Init => Stream!Init
  BY DEF Init, Stream!Init
<1>2. ASSUME CopyInv, CopyInv', [Next]_vars
      PROVE  [Stream!Next]_<<source, Out>>
  BY <1>2, StepDelivers
<1> QED BY <1>1, <1>2, CopyInvariant, PTL DEF Spec, Implements, Stream!Spec, Out
=============================================================================
