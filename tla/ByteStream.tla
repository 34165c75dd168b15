----------------------------- MODULE ByteStream -----------------------------
(***************************************************************************)
(* What copying promises: the bytes of each file come out in order, none    *)
(* twice, none left out in between, whatever goes wrong on the way.         *)
(***************************************************************************)
EXTENDS Naturals, Sequences

CONSTANT Names
VARIABLES source, out

Init == out = [f \in Names |-> <<>>]

Deliver(f) ==
  /\ \E n \in Len(out[f])..Len(source[f]) :
        out' = [out EXCEPT ![f] = SubSeq(source[f], 1, n)]
  /\ UNCHANGED source

Next == \E f \in Names : Deliver(f)

Spec == Init /\ [][Next]_<<source, out>>
=============================================================================
