----------------------------- MODULE SyncTables -----------------------------
(***************************************************************************)
(* The data the network-administration server replicates: a routing table  *)
(* (layer L3) and a MAC list (layer L2), the sync_msg_t that describes one *)
(* change, and process_sync_mesg, which server and clients run alike.      *)
(*                                                                         *)
(* A C string is a sequence of naturals.  A routing entry has dest, mask   *)
(* and via; via stands for gw and oif, which the code always copies one    *)
(* after the other and in the same way.  msg_body is a union whose two     *)
(* members begin with dest and with mac, so a MAC is carried in dest.      *)
(***************************************************************************)
EXTENDS Integers, SequencesExt

Layers == {"L3", "L2"}

OpCodes == {"CREATE", "UPDATE", "DELETE", "NONE"}

Str == Seq(Nat)

Msg == [op : OpCodes, l : Layers, dest : Str, mask : Nat, via : Str]

EntryType == [dest : Str, mask : Nat, via : Str]

Tables == [Layers -> Seq(EntryType)]

(* init_dll for both structures *)
EmptyTables == [l \in Layers |-> << >>]

(* calloc(1, sizeof(sync_msg_t)): CREATE and L3 are the zero enumerators *)
ZeroMsg == [op |-> "CREATE", l |-> "L3", dest |-> << >>, mask |-> 0, via |-> << >>]

(* memcpy(field, s, strlen(s)) into a field that holds old: the terminator *)
(* is not copied, so the tail of a longer old string survives.             *)
Overlay(s, old) == s \o SubSeq(old, Len(s) + 1, Len(old))

(* The keys find_routing_table_entry and find_mac compare *)
SameKey(e, m) == e.dest = m.dest /\ (m.l = "L3" => e.mask = m.mask)

Hits(t, m) == {i \in DOMAIN t : SameKey(t[i], m)}

(* Both finds return the first hit.  UniqueKeys makes it the only one. *)
Find(t, m) == CHOOSE i \in Hits(t, m) : TRUE

(* What append stores: the member of the union that the layer reads *)
Entry(m) == [dest |-> m.dest,
             mask |-> IF m.l = "L3" THEN m.mask ELSE 0,
             via  |-> IF m.l = "L3" THEN m.via ELSE << >>]

CreateBlind(t, m) == Append(t, Entry(m))
Create(t, m) == IF Hits(t, m) = {} THEN Append(t, Entry(m)) ELSE t

(* update clears both fields before it copies: no tail survives here *)
Update(t, m) == IF m.l = "L2" \/ Hits(t, m) = {} THEN t
                ELSE [t EXCEPT ![Find(t, m)] = [@ EXCEPT !.via = m.via]]

Delete(t, m) == IF Hits(t, m) = {} THEN t ELSE RemoveAt(t, Find(t, m))

(* process_sync_mesg on the one table the message is for *)
Process(t, m) ==
  CASE m.op = "CREATE" -> Create(t, m)
    [] m.op = "UPDATE" -> Update(t, m)
    [] m.op = "DELETE" -> Delete(t, m)
    [] m.op = "NONE"   -> t

(* The caller's choice of table by l_code, in server.c and client.c *)
Apply(tables, m) == [tables EXCEPT ![m.l] = Process(@, m)]

(* No two entries of a table have the key that its find compares *)
UniqueIn(t, l) ==
  \A i, j \in DOMAIN t :
     (t[i].dest = t[j].dest /\ (l = "L3" => t[i].mask = t[j].mask)) => i = j

Unique(tables) == \A l \in Layers : UniqueIn(tables[l], l)
-----------------------------------------------------------------------------
(* What the receiver of a message reads of it: the operation and the       *)
(* entry, but of a message without operation only which table it is about. *)
Item(op, l, e) == [op |-> op, l |-> l, dest |-> e.dest, mask |-> e.mask, via |-> e.via]
UpToDate(l)    == [op |-> "NONE", l |-> l, dest |-> << >>, mask |-> 0, via |-> << >>]
Plain(m)       == IF m.op = "NONE" THEN UpToDate(m.l) ELSE Item(m.op, m.l, Entry(m))

(* CREATE of every entry of list l from index i + 1 on, and the notice     *)
(* that the list is up to date                                             *)
Copy(tables, l, i) ==
  [j \in 1 .. Len(tables[l]) - i |-> Item("CREATE", l, tables[l][i + j])] \o <<UpToDate(l)>>
=============================================================================
