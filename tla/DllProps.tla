------------------------------ MODULE DllProps ------------------------------
(***************************************************************************)
(* What the list promises while signals interrupt its operations.          *)
(***************************************************************************)
EXTENDS Dll

(* The pointers of the list and the locals of both threads of control are  *)
(* cells or NULL, and a stale list belongs to an interrupted operation.    *)
TypeOK ==
  /\ live \subseteq Cell /\ next \in [Cell -> Cell \cup {Nil}] /\ prev \in [Cell -> Cell \cup {Nil}]
  /\ head \in live /\ tail \in Cell /\ pc \in MainStates /\ node \in Cell \cup {Nil}
  /\ hcur \in Cell \cup {Nil} /\ stale \in BOOLEAN /\ flushes \in 0 .. MaxFlush
  /\ stale => pc # "idle"

(* The nodes S are a ring of allocated nodes: links stay inside, and next  *)
(* and prev are each other's inverse.                                      *)
IsRing(S) ==
  /\ S \subseteq live /\ head \in S
  /\ \A n \in S : next[n] \in S /\ prev[n] \in S /\ next[prev[n]] = n /\ prev[next[n]] = n

IsList(S) == IsRing(S) /\ tail = prev[head]

(* Between two messages the global list is whole, whatever flushes and     *)
(* operations came before: del and append repair all three of next, prev   *)
(* and tail.                                                               *)
Linked == pc = "idle" /\ ~Interrupted => \E S \in SUBSET live : IsList(S)

(* The cells that the next step of process_sync_mesg dereferences          *)
Touched ==
  CASE pc \in {"find", "check", "free"} -> {node}
    [] pc = "headprev" -> {head, node}
    [] pc = "tailnext" -> {tail, node}
    [] pc = "prevnext" -> {node, prev[node]}
    [] pc = "nextprev" -> {node, next[node]}
    [] OTHER -> {}

(* An operation that was not interrupted never touches a freed node.       *)
MainSafe == ~Interrupted /\ ~stale => Touched \subseteq live

(* The handler never touches a freed node, even when it starts between two *)
(* pointer writes of append or del: what it walks and repairs is allocated *)
(* at each of those points.                                                *)
HandlerSafe ==
  Interrupted /\ hcur # head => {hcur, next[hcur], prev[hcur]} \subseteq live

(* The nodes from the head on, in order; none once a handler has begun     *)
Walk[k \in 0 .. Cardinality(Cell)] == IF k = 0 THEN head ELSE next[Walk[k - 1]]

Nodes == LET len == CHOOSE k \in 0 .. Cardinality(Cell) - 1 :
                      Walk[k + 1] = head /\ \A i \in 1 .. k : Walk[i] # head
         IN  IF Interrupted THEN << >> ELSE [i \in 1 .. len |-> Walk[i]]

List == INSTANCE ListSpec WITH Item <- Cell, list <- Nodes

(* Seen from the head, the pointer writes add one node at the back or take *)
(* one out at a time and never disturb the order of the others, and a      *)
(* flush that starts anywhere leaves an empty list.                        *)
Implements == List!LSpec
=============================================================================
