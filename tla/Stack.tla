------------------------------- MODULE Stack -------------------------------
(***************************************************************************)
(* What vec.h promises: a sequence that changes at its end.                *)
(***************************************************************************)
EXTENDS Sequences, Integers

CONSTANT Elem

VARIABLE elems

Init == elems = << >>

Push == \E e \in Elem : elems' = Append(elems, e)

Pop == elems # << >> /\ elems' = SubSeq(elems, 1, Len(elems) - 1)

(* The owner stores through a pointer into the sequence.                   *)
Store == \E p \in DOMAIN elems, e \in Elem : elems' = [elems EXCEPT ![p] = e]

Clear == elems' = << >>

Next == Push \/ Pop \/ Store \/ Clear

Spec == Init /\ [][Next]_elems
=============================================================================
