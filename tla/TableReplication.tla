-------------------------- MODULE TableReplication --------------------------
(***************************************************************************)
(* What the server of nhap/ip promises: one master pair of tables, and     *)
(* members each of which sees, from the moment it joins, a copy of the     *)
(* tables and then every update, once and in order.  An update reaches all *)
(* members in one step, and a new member gets its copy in one step.  With  *)
(* each table of the copy, and with an update that changes nothing, comes  *)
(* the notice that the table is up to date.                                *)
(***************************************************************************)
EXTENDS SyncTables

CONSTANTS Members, \* who may join
          Updates  \* the messages the master applies

VARIABLES on,      \* the master still serves
          master,  \* its tables
          joined,  \* the current members
          view,    \* what each member has
          queue    \* updates and notices on their way to it

rvars == <<on, master, joined, view, queue>>

Nothing == [c \in Members |-> << >>]
Blank   == [c \in Members |-> EmptyTables]

RInit == on = TRUE /\ master = EmptyTables /\ joined = {} /\ view = Blank /\ queue = Nothing

Change(m) ==
  /\ on /\ master' = Apply(master, m)
  /\ queue' = [c \in Members |-> IF c \in joined THEN Append(queue[c], Plain(m)) ELSE queue[c]]
  /\ UNCHANGED <<on, joined, view>>

Join(c) ==
  /\ on /\ c \notin joined /\ joined' = joined \cup {c}
  /\ queue' = [queue EXCEPT ![c] = Copy(master, "L3", 0) \o Copy(master, "L2", 0)]
  /\ UNCHANGED <<on, master, view>>

Deliver(c) ==
  /\ on /\ queue[c] # << >>
  /\ view' = [view EXCEPT ![c] = Apply(@, Head(queue[c]))]
  /\ queue' = [queue EXCEPT ![c] = Tail(@)]
  /\ UNCHANGED <<on, master, joined>>

Leave(c) ==
  /\ on /\ c \in joined /\ joined' = joined \ {c}
  /\ view' = [view EXCEPT ![c] = EmptyTables] /\ queue' = [queue EXCEPT ![c] = << >>]
  /\ UNCHANGED <<on, master>>

(* The promise ends with the server *)
Stop == /\ on /\ on' = FALSE /\ master' = EmptyTables /\ joined' = {}
        /\ view' = Blank /\ queue' = Nothing

RNext == Stop \/ (\E m \in Updates : Change(m))
              \/ \E c \in Members : Join(c) \/ Deliver(c) \/ Leave(c)

RSpec == RInit /\ [][RNext]_rvars
=============================================================================
