------------------------------ MODULE ListSpec ------------------------------
(***************************************************************************)
(* What nhap/ip/dll promises: a list to which items are added at the back  *)
(* and from which any item, or all of them, can be removed.               *)
(***************************************************************************)
EXTENDS Naturals, SequencesExt

CONSTANT Item

VARIABLE list

LInit == list = << >>

PushBack(x)    == x \notin ToSet(list) /\ list' = Append(list, x)
TakeOut(i)  == list' = RemoveAt(list, i)
Clear       == list' = << >>

LNext == Clear \/ (\E x \in Item : PushBack(x)) \/ (\E i \in DOMAIN list : TakeOut(i))

LSpec == LInit /\ [][LNext]_list
=============================================================================
