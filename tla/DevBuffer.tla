----------------------------- MODULE DevBuffer -----------------------------
(***************************************************************************)
(* The buffer of File_Operation.c, fops.c and ioctl.c, whose lseek, read    *)
(* and write are the same: one block of kernel memory and one size for all  *)
(* open files, a position for each, and no lock.  Processes copy byte by    *)
(* byte, each at its own pace, on a 32-bit machine.                        *)
(***************************************************************************)
EXTENDS Integers

CONSTANTS
  Users,     \* processes, each with a file of its own
  Page,      \* NPAGES * PAGE_SIZE: what m_write clears and fills
  Alloc,     \* DEV_MEM_SIZE: what kmalloc has given
  MaxWrites, \* writes in all
  Idle       \* no call in progress

VARIABLES
  mem,     \* mem[i] : the write byte i is from, Zero or Junk
  size,    \* mdev.size
  pos,     \* pos[u] : the position of u's file, or Closed
  call,    \* call[u] : the read or write u is in
  got,     \* got[u] : what the last read of u has returned
  writes,  \* writes begun so far
  mixed,   \* the bytes may stem from writes that ran at the same time
  alive    \* the kernel is

vars == <<mem, size, pos, call, got, writes, mixed, alive>>

Junk   == -1
Zero   == 0
Closed == -1
Bytes  == Junk..MaxWrites
Calls  == [op: {"clear", "fill", "read"}, id: 0..MaxWrites, from: 0..Page,
           n: 0..Page, i: 0..Page, alone: BOOLEAN]
Begin(op, id, from, n, alone) ==
  [op |-> op, id |-> id, from |-> from, n |-> n, i |-> 0, alone |-> alone]

Init ==
  /\ mem = [i \in 0..(Alloc - 1) |-> Junk]
  /\ size = 0
  /\ pos = [u \in Users |-> Closed]
  /\ call = [u \in Users |-> Idle]
  /\ got = [u \in Users |-> {}]
  /\ writes = 0 /\ mixed = FALSE /\ alive = TRUE

Ready(u)   == alive /\ pos[u] # Closed /\ call[u] = Idle
In(u, op)  == alive /\ call[u] # Idle /\ call[u].op = op
Writing(u) == call[u] # Idle /\ call[u].op \in {"clear", "fill"}
SomeWrite  == \E u \in Users : Writing(u)

Open(u) ==
  /\ alive /\ pos[u] = Closed
  /\ pos' = [pos EXCEPT ![u] = 0]
  /\ UNCHANGED <<mem, size, call, got, writes, mixed, alive>>

Close(u) ==
  /\ Ready(u)
  /\ pos' = [pos EXCEPT ![u] = Closed]
  /\ got' = [got EXCEPT ![u] = {}]
  /\ UNCHANGED <<mem, size, call, writes, mixed, alive>>

\* SEEK_SET, SEEK_CUR and SEEK_END all take what ends up in 0..DEV_MEM_SIZE
\* and refuse the rest.
Target(u, offset, whence) ==
  CASE whence = "SET" -> offset
    [] whence = "CUR" -> pos[u] + offset
    [] whence = "END" -> Alloc + offset
Seek(u) ==
  /\ Ready(u)
  /\ \E whence \in {"SET", "CUR", "END"}, offset \in -Page..Page :
        LET to == Target(u, offset, whence)
        IN  to >= 0 /\ to <= Alloc /\ pos' = [pos EXCEPT ![u] = to]
  /\ UNCHANGED <<mem, size, call, got, writes, mixed, alive>>

----------------------------------------------------------------------------
\* The bytes a write of n takes at position p, and those a read returns.
\* The slip: WriteCountAll, without the limit.
WriteCountAll(n, p) == n
WriteCount(n, p) == IF n + p > Page THEN Page - p ELSE n
ReadCount(n, p)  == IF n > size - p THEN size - p ELSE n

\* A write that begins takes away from every call in progress that it is
\* alone.
Disturbed(c) == IF c = Idle THEN Idle ELSE [c EXCEPT !.alone = FALSE]

Write(u) ==
  /\ Ready(u) /\ writes < MaxWrites
  /\ writes' = writes + 1
  /\ \E n \in 0..Page :
        call' = [v \in Users |->
                   IF v = u
                   THEN Begin("clear", writes', pos[u],
                              WriteCount(n, pos[u]), ~SomeWrite)
                   ELSE Disturbed(call[v])]
  /\ mixed' = (mixed \/ SomeWrite)
  /\ UNCHANGED <<mem, size, pos, got, alive>>

\* Only the first Alloc bytes of the page are the driver's; what the memset
\* and the copy do behind them is Overrun.
Put(i, byte) == [j \in DOMAIN mem |-> IF j = i THEN byte ELSE mem[j]]

ToFill(u) == call' = [call EXCEPT ![u] =
                        Begin("fill", @.id, @.from, @.n, @.alone)]

\* The slip: nothing is cleared.
ClearLess(u) ==
  /\ In(u, "clear")
  /\ ToFill(u)
  /\ UNCHANGED <<mem, size, pos, got, writes, mixed, alive>>

Clear(u) ==
  /\ In(u, "clear")
  /\ IF call[u].i < Page
     THEN /\ mem' = Put(call[u].i, Zero)
          /\ call' = [call EXCEPT ![u].i = @ + 1]
     ELSE ToFill(u) /\ UNCHANGED mem
  /\ UNCHANGED <<size, pos, got, writes, mixed, alive>>

\* copy_from_user, which may stop anywhere: then position and size stay.
Fill(u) ==
  /\ In(u, "fill")
  /\ LET c == call[u]
     IN  \/ /\ c.i < c.n
            /\ mem' = Put(c.from + c.i, c.id)
            /\ call' = [call EXCEPT ![u].i = @ + 1]
            /\ UNCHANGED <<size, pos, mixed>>
         \/ /\ c.i = c.n
            /\ pos' = [pos EXCEPT ![u] = c.from + c.n]
            /\ size' = c.from + c.n
            /\ mixed' = (mixed /\ ~c.alone)
            /\ call' = [call EXCEPT ![u] = Idle]
            /\ UNCHANGED mem
         \/ /\ c.i < c.n
            /\ call' = [call EXCEPT ![u] = Idle]
            /\ UNCHANGED <<mem, size, pos, mixed>>
  /\ UNCHANGED <<got, writes, alive>>

\* The kernel memory behind the block is somebody else's: a write that has
\* begun to clear it may be the end of the kernel.
Overrun ==
  /\ \E u \in Users : In(u, "fill") \/ (In(u, "clear") /\ call[u].i > Alloc)
  /\ Alloc < Page
  /\ alive' = FALSE
  /\ UNCHANGED <<mem, size, pos, call, got, writes, mixed>>

\* A position behind the end makes the count negative, and copy_to_user
\* refuses it.
Read(u) ==
  /\ Ready(u)
  /\ \E n \in 1..Page :
        LET count == ReadCount(n, pos[u])
        IN  /\ count >= 0
            /\ call' = [call EXCEPT ![u] =
                    Begin("read", 0, pos[u], count, ~SomeWrite /\ ~mixed)]
  /\ got' = [got EXCEPT ![u] = {}]
  /\ UNCHANGED <<mem, size, pos, writes, mixed, alive>>

Copy(u) ==
  /\ In(u, "read")
  /\ LET c == call[u]
         at == c.from + c.i
     IN  IF c.i < c.n
         THEN /\ got' = IF at \in DOMAIN mem
                        THEN [got EXCEPT ![u] = @ \cup {mem[at]}] ELSE got
              /\ call' = [call EXCEPT ![u].i = @ + 1]
              /\ UNCHANGED pos
         ELSE /\ pos' = [pos EXCEPT ![u] = c.from + c.n]
              /\ call' = [call EXCEPT ![u] = Idle]
              /\ UNCHANGED got
  /\ UNCHANGED <<mem, size, writes, mixed, alive>>

----------------------------------------------------------------------------
Next ==
  \/ Overrun
  \/ \E u \in Users : \/ Open(u) \/ Close(u) \/ Seek(u) \/ Write(u)
                      \/ Clear(u) \/ Fill(u) \/ Read(u) \/ Copy(u)

Spec == Init /\ [][Next]_vars
=============================================================================
