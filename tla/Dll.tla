-------------------------------- MODULE Dll --------------------------------
(***************************************************************************)
(* nhap/ip/dll in the client: process_sync_mesg searches a list and then   *)
(* appends a node or deletes the one it found, one pointer write per step, *)
(* and the SIGUSR1 handler, which can run before any of these steps,       *)
(* deletes all nodes, frees the list and makes a new one.  A node is its   *)
(* address; what it holds does not matter here, nor that the dummy is      *)
(* allocated with the size of a list (dll.c:9), two pointers where a node  *)
(* has three: it fits the smallest block of the allocator.                 *)
(***************************************************************************)
EXTENDS Naturals, FiniteSets

CONSTANTS
  Cell,     \* heap addresses
  Nil,      \* NULL
  MaxFlush  \* bound: signals in a behaviour

ASSUME NilAssumption == Nil \notin Cell
ASSUME CellAssumption == IsFiniteSet(Cell)
ASSUME FlushAssumption == MaxFlush \in Nat

VARIABLES
  live,       \* nodes that are allocated
  next, prev, \* their links
  head, tail, \* of the list that the global points to
  pc, node,   \* where process_sync_mesg is, and its local
  hcur,       \* the handler's local, Nil when no handler runs
  stale,      \* the handler has freed the list process_sync_mesg works on
  flushes     \* signals so far

heap == <<live, next, prev>>
ends == <<head, tail>>
ctl  == <<hcur, stale, flushes>>
vars == <<heap, ends, pc, node, ctl>>

MainStates == {"idle", "find", "alloc", "headprev", "tailnext", "settail",
               "prevnext", "nextprev", "fixtail", "free", "check", "undefined"}

Interrupted == hcur # Nil

Init ==
  \E d \in Cell :
    /\ live = {d} /\ next = [c \in Cell |-> IF c = d THEN d ELSE Nil] /\ prev = next
    /\ head = d /\ tail = d /\ pc = "idle" /\ node = Nil
    /\ hcur = Nil /\ stale = FALSE /\ flushes = 0
-----------------------------------------------------------------------------
(* A step of process_sync_mesg: it waits while a handler runs *)
Main(at, to) == ~Interrupted /\ ~stale /\ pc = at /\ pc' = to /\ UNCHANGED ctl

Begin == Main("idle", "find") /\ node' = next[head] /\ UNCHANGED <<heap, ends>>

(* find_routing_table_entry and find_mac, before the change and after it *)
Advance(at) == Main(at, at) /\ node # head /\ node' = next[node] /\ UNCHANGED <<heap, ends>>

(* Found: DELETE deletes, UPDATE writes the entry and looks again *)
Hit ==
  /\ node # head
  /\ \/ (Main("find", "prevnext") \/ Main("find", "idle")) /\ UNCHANGED node
     \/ Main("find", "check") /\ node' = next[head]
  /\ UNCHANGED <<heap, ends>>

(* Not found: CREATE appends *)
Miss ==
  /\ node = head /\ (Main("find", "alloc") \/ Main("find", "idle"))
  /\ UNCHANGED <<heap, ends, node>>

(* append: the first three lines write only the new node *)
Calloc(forward) ==
  /\ Main("alloc", "headprev")
  /\ \E c \in Cell \ live :
       /\ node' = c /\ live' = live \cup {c}
       /\ next' = [next EXCEPT ![c] = forward] /\ prev' = [prev EXCEPT ![c] = tail]
  /\ UNCHANGED ends
AllocBare == Calloc(Nil)
Alloc     == Calloc(head)

HeadPrev == /\ Main("headprev", "tailnext") /\ prev' = [prev EXCEPT ![head] = node]
            /\ UNCHANGED <<live, next, ends, node>>
TailNext == /\ Main("tailnext", "settail") /\ next' = [next EXCEPT ![tail] = node]
            /\ UNCHANGED <<live, prev, ends, node>>
KeepTail == Main("settail", "check") /\ node' = next[head] /\ UNCHANGED <<heap, ends>>
SetTail  == Main("settail", "check") /\ tail' = node /\ node' = next[head] /\ UNCHANGED <<heap, head>>

(* del *)
PrevNext == /\ Main("prevnext", "nextprev") /\ next' = [next EXCEPT ![prev[node]] = next[node]]
            /\ UNCHANGED <<live, prev, ends, node>>
NoNextPrev == Main("nextprev", "fixtail") /\ UNCHANGED <<heap, ends, node>>
NextPrev == /\ Main("nextprev", "fixtail") /\ prev' = [prev EXCEPT ![next[node]] = prev[node]]
            /\ UNCHANGED <<live, next, ends, node>>
NoFixTail == Main("fixtail", "free") /\ UNCHANGED <<heap, ends, node>>
FixTail  == /\ Main("fixtail", "free") /\ tail' = IF node = tail THEN prev[node] ELSE tail
            /\ UNCHANGED <<heap, head, node>>
Free     == /\ Main("free", "check") /\ live' = live \ {node} /\ node' = next[head]
            /\ UNCHANGED <<next, prev, ends>>

(* The second find ends at a node or at the head *)
Checked == Main("check", "idle") /\ UNCHANGED <<heap, ends, node>>

(* After an interruption the code goes on with the freed list.  Not every  *)
(* step touches it, but each operation does before it ends.                *)
UseFreed == /\ ~Interrupted /\ stale /\ pc # "undefined" /\ pc' = "undefined"
            /\ UNCHANGED <<heap, ends, node, ctl>>
-----------------------------------------------------------------------------
(* signal_handler(SIGUSR1): deinit_dll, init_dll *)

Signal ==
  /\ ~Interrupted /\ pc # "undefined" /\ flushes < MaxFlush
  /\ flushes' = flushes + 1 /\ hcur' = next[head] /\ stale' = (stale \/ pc # "idle")
  /\ UNCHANGED <<heap, ends, pc, node>>

(* One turn of deinit_dll's loop: next is read before del *)
HandlerDel ==
  /\ Interrupted /\ hcur # head
  /\ next' = [next EXCEPT ![prev[hcur]] = next[hcur]]
  /\ prev' = [prev EXCEPT ![next[hcur]] = prev[hcur]]
  /\ tail' = IF hcur = tail THEN prev[hcur] ELSE tail
  /\ live' = live \ {hcur} /\ hcur' = next[hcur]
  /\ UNCHANGED <<head, pc, node, stale, flushes>>

(* free(dll) leaves the old dummy allocated; init_dll makes a new one *)
HandlerInit ==
  /\ Interrupted /\ hcur = head
  /\ \E d \in Cell \ live :
       /\ live' = live \cup {d} /\ head' = d /\ tail' = d
       /\ next' = [next EXCEPT ![d] = d] /\ prev' = [prev EXCEPT ![d] = d]
  /\ hcur' = Nil
  /\ UNCHANGED <<pc, node, stale, flushes>>
-----------------------------------------------------------------------------
Next ==
  \/ Begin \/ Advance("find") \/ Advance("check") \/ Hit \/ Miss
  \/ Alloc \/ HeadPrev \/ TailNext \/ SetTail
  \/ PrevNext \/ NextPrev \/ FixTail \/ Free
  \/ Checked \/ UseFreed
  \/ Signal \/ HandlerDel \/ HandlerInit

Spec == Init /\ [][Next]_vars
=============================================================================
