------------------------------- MODULE Rings -------------------------------
(***************************************************************************)
(* What linkedlist.h promises: nodes in disjoint rings.  ring[x] is the    *)
(* ring of x read from x on, empty while x is in none.  A list is the ring *)
(* of its header.                                                          *)
(***************************************************************************)
EXTENDS Sequences, SequencesExt

CONSTANTS Header, Node, None

VARIABLES
    ring,
    front           \* the node a list without a header is entered at

(* The ring c read from x on.                                              *)
From(c, x) ==
    LET p == CHOOSE q \in DOMAIN c : c[q] = x
    IN  SubSeq(c, p, Len(c)) \o SubSeq(c, 1, p - 1)

(* The members of c form that ring, and the others keep theirs.            *)
Becomes(c) == [x \in DOMAIN ring |-> IF x \in Range(c) THEN From(c, x) ELSE ring[x]]

Init ==
    /\ ring = [x \in Header \cup Node |-> IF x \in Header THEN <<x>> ELSE << >>]
    /\ front = None

(* A node alone.                                                           *)
Single(n) == ring[n] = << >> /\ ring' = Becomes(<<n>>) /\ UNCHANGED front

Enter(n) == ring[n] # << >> /\ front' = n /\ UNCHANGED ring

(* The whole ring of src comes before dst.                                 *)
Join(dst, src) ==
    /\ ring[dst] # << >> /\ ring[src] # << >>
    /\ ring' = Becomes(ring[dst] \o ring[src])

(* A node alone is put before dst in the same step.                        *)
Emplace(dst, n) ==
    /\ ring[dst] # << >> /\ ring[n] = << >>
    /\ ring' = Becomes(Append(ring[dst], n))
    /\ UNCHANGED front

PushBack(dst, src) == Join(dst, src) /\ UNCHANGED front

PushFront(src) == front # None /\ Join(front, src) /\ front' = src

RemoveNode(n) ==
    /\ Len(ring[n]) > 1
    /\ ring' = [Becomes(Tail(ring[n])) EXCEPT ![n] = << >>]
    /\ front' = IF front = n THEN ring[n][2] ELSE front

Next ==
    \/ \E n \in Node :
          \/ Single(n) \/ Enter(n) \/ RemoveNode(n) \/ PushFront(n)
          \/ \E dst \in Header \cup Node : Emplace(dst, n) \/ PushBack(dst, n)

Spec == Init /\ [][Next]_<<ring, front>>
=============================================================================
