----------------------------- MODULE LinkedList -----------------------------
(***************************************************************************)
(* The doubly linked list of src/src/global/data-structures/linkedlist.c   *)
(* and a client that keeps to its header: it removes no header, splices    *)
(* only rings that are apart and have no header, initialises a node before *)
(* it links it, and passes ll_push_front a pointer variable of its own,    *)
(* not the next field of a node.  LinkedListRaw has the calls that this    *)
(* client does not make.  ll_remove leaves the pointers of the removed     *)
(* node as they are, and so does next; linked is what the client knows.    *)
(***************************************************************************)
EXTENDS Integers, Sequences, SequencesExt

CONSTANTS
    Header,         \* headers, initialised once
    Node,           \* the llist_st embedded in the client's structs
    None            \* no pointer

All == Header \cup Node

ASSUME ListAssumption ==
    IsFiniteSet(All) /\ Header \cap Node = {} /\ None \notin All

VARIABLES
    next, prev,     \* llist_st
    linked,         \* the nodes initialised and not removed since
    front,          \* the pointer the client passes to ll_push_front
    list, cur,      \* ll_foreach, or None outside it
    seen, todo      \* the nodes passed to body, and those there at the call

links == <<next, prev, linked, front>>
loop  == <<list, cur, seen, todo>>
vars  == <<links, loop>>

TypeOK ==
    /\ next \in [All -> All \cup {None}] /\ prev \in [All -> All \cup {None}]
    /\ linked \subseteq Node
    /\ front \in linked \cup {None}
    /\ list \in Header \cup {None}
    /\ cur \in (IF list = None THEN {None} ELSE All)
    /\ seen \in Seq(Node) /\ todo \in Seq(Node)

(* The nodes that following ptr from x reaches.                            *)
Walk(ptr, x) ==
    LET step[k \in 0 .. (2 * Cardinality(All))] ==
            IF k = 0 THEN x ELSE ptr[step[k - 1]]
    IN  step

(* The ring of x from x on.                                                *)
Ring(x) ==
    LET w    == Walk(next, x)
        ends == {k \in DOMAIN w : k > 0 /\ w[k] = x}
        last == IF ends = {} THEN Cardinality(All) ELSE Min(ends)
    IN  [p \in 1 .. last |-> w[p - 1]]

Members(x) == Range(Ring(x))

(* Two rings that may be spliced: src brings no header along.              *)
Apart(dst, src) == Members(src) \cap (Members(dst) \cup Header) = {}

Init ==
    /\ next = [x \in All |-> IF x \in Header THEN x ELSE None]
    /\ prev = next
    /\ linked = {} /\ front = None
    /\ list = None /\ cur = None /\ seen = << >> /\ todo = << >>

Idle == list = None

(* ll_init.                                                                *)
InitNode(n) ==
    /\ Idle /\ n \notin linked
    /\ next' = [next EXCEPT ![n] = n]
    /\ prev' = [prev EXCEPT ![n] = n]
    /\ linked' = linked \cup {n}
    /\ UNCHANGED <<front, loop>>

(* The client enters a list without a header at n.                         *)
Enter(n) ==
    /\ Idle /\ n \in linked /\ Members(n) \cap Header = {}
    /\ front' = n
    /\ UNCHANGED <<next, prev, linked, loop>>

(* ll_emplace_back: ll_init, then ll_push_back, of the node alone.         *)
EmplaceBack(dst, n) ==
    /\ Idle /\ n \notin linked /\ dst \in Header \cup linked
    /\ next' = [next EXCEPT ![prev[dst]] = n, ![n] = dst]
    /\ prev' = [prev EXCEPT ![n] = prev[dst], ![dst] = n]
    /\ linked' = linked \cup {n}
    /\ UNCHANGED <<front, loop>>

(* The mutant without new_dst_prev: dst keeps its predecessor.             *)
PushBackNoTemp(dst, src) ==
    /\ Idle /\ dst \in Header \cup linked /\ src \in linked
    /\ Apart(dst, src) /\ (front # None => front \notin Members(src))
    /\ next' = [next EXCEPT ![prev[dst]] = src, ![prev[src]] = dst]
    /\ prev' = [prev EXCEPT ![src] = prev[dst]]
    /\ UNCHANGED <<linked, front, loop>>

(* The mutant that moves src alone and forgets the rest of its ring.       *)
PushBackOneNode(dst, src) ==
    /\ Idle /\ dst \in Header \cup linked /\ src \in linked
    /\ Apart(dst, src) /\ (front # None => front \notin Members(src))
    /\ next' = [next EXCEPT ![prev[dst]] = src, ![src] = dst]
    /\ prev' = [prev EXCEPT ![src] = prev[dst], ![dst] = src]
    /\ UNCHANGED <<linked, front, loop>>

(* ll_push_back: the whole ring of src comes before dst.                   *)
PushBack(dst, src) ==
    /\ Idle /\ dst \in Header \cup linked /\ src \in linked
    /\ Apart(dst, src) /\ (front # None => front \notin Members(src))
    /\ next' = [next EXCEPT ![prev[dst]] = src, ![prev[src]] = dst]
    /\ prev' = [prev EXCEPT ![src] = prev[dst], ![dst] = prev[src]]
    /\ UNCHANGED <<linked, front, loop>>

(* ll_push_front, of the list the client enters at front, a variable that  *)
(* the stores into the ring do not change.                                 *)
PushFront(src) ==
    /\ Idle /\ front # None /\ src \in linked /\ Apart(front, src)
    /\ next' = [next EXCEPT ![prev[src]] = front, ![prev[front]] = src]
    /\ prev' = [prev EXCEPT ![src] = prev[front], ![front] = prev[src]]
    /\ front' = src
    /\ UNCHANGED <<linked, loop>>

(* The mutant that makes the removed node a list of its own.               *)
UnlinkReinit(n) ==
    IF next[n] = n THEN UNCHANGED <<next, prev, linked>>
    ELSE /\ next' = [next EXCEPT ![prev[n]] = next[n], ![n] = n]
         /\ prev' = [prev EXCEPT ![next[n]] = prev[n], ![n] = n]
         /\ linked' = linked \ {n}

(* ll_remove.                                                              *)
Unlink(n) ==
    IF next[n] = n THEN UNCHANGED <<next, prev, linked>>
    ELSE /\ next' = [next EXCEPT ![prev[n]] = next[n]]
         /\ prev' = [prev EXCEPT ![next[n]] = prev[n]]
         /\ linked' = linked \ {n}

(* The client removes a node and keeps its own pointer in the list.        *)
RemoveNode(n) ==
    /\ Idle /\ n \in linked
    /\ Unlink(n)
    /\ front' = IF front = n THEN next[n] ELSE front
    /\ UNCHANGED loop

----------------------------------------------------------------------------
(* ll_foreach and LL_FOREACH.                                              *)

ForeachBegin(h) ==
    /\ Idle
    /\ list' = h /\ cur' = next[h]
    /\ seen' = << >> /\ todo' = Tail(Ring(h))
    /\ UNCHANGED links

(* body returns a positive value.                                          *)
ForeachStep ==
    /\ ~Idle /\ cur # list
    /\ seen' = Append(seen, cur)
    /\ cur' = next[cur]
    /\ UNCHANGED <<links, list, todo>>

(* body removes the node it was passed and returns a positive value: cur   *)
(* is advanced from the removed node.                                      *)
ForeachRemove ==
    /\ ~Idle /\ cur # list
    /\ seen' = Append(seen, cur)
    /\ Unlink(cur)
    /\ cur' = next'[cur]
    /\ UNCHANGED <<front, list, todo>>

(* body returns zero or less, or the loop is over.                         *)
ForeachReturn ==
    /\ ~Idle
    /\ list' = None /\ cur' = None /\ seen' = << >> /\ todo' = << >>
    /\ UNCHANGED links

----------------------------------------------------------------------------
(* The mutant that starts at the header.                                   *)
GetFromHeader(x, idx) == Walk(next, x)[idx]

(* ll_get and ll_get_reverse.                                              *)
Get(x, idx)        == Walk(next, next[x])[idx]
GetReverse(x, idx) == Walk(prev, prev[x])[idx]

Next ==
    \/ \E n \in Node :
          \/ InitNode(n) \/ Enter(n) \/ RemoveNode(n) \/ PushFront(n)
          \/ \E dst \in All : EmplaceBack(dst, n) \/ PushBack(dst, n)
    \/ \E h \in Header : ForeachBegin(h)
    \/ ForeachStep \/ ForeachRemove \/ ForeachReturn

Spec == Init /\ [][Next]_vars

----------------------------------------------------------------------------
(* Properties.                                                             *)

(* In every ring prev undoes next, and no ring reaches a removed node,     *)
(* whatever was spliced and removed before (linkedlist.c:20-44, 105-112).  *)
Consistent ==
    TypeOK /\ \A x \in Header \cup linked :
        /\ next[x] \in Header \cup linked /\ prev[x] \in Header \cup linked
        /\ prev[next[x]] = x /\ next[prev[x]] = x

(* ll_foreach passes the nodes of the list in order, each once, also when  *)
(* body removes the node it was passed (linkedlist.c:51-69).               *)
ForeachExact ==
    ~Idle => /\ IsPrefix(seen, todo)
             /\ cur = list => seen = todo

(* ll_get and ll_get_reverse return the node at the index modulo the       *)
(* number of nodes and the header (linkedlist.h:111-127).                  *)
GetIsModular ==
    \A h \in Header, idx \in 0 .. (2 * Cardinality(Node)) :
        LET r == Ring(h)
            k == idx % Len(r)
        IN  /\ Get(h, idx) = r[((k + 1) % Len(r)) + 1]
            /\ GetReverse(h, idx) = r[Len(r) - k]

(* Each call joins two whole rings, takes one node out, or changes no ring *)
(* (linkedlist.c:14-112).                                                  *)
RingOf(x) == IF x \in Header \cup linked THEN Ring(x) ELSE << >>
Abstract == INSTANCE Rings WITH ring <- [x \in All |-> RingOf(x)]
ImplementsRings == Abstract!Spec
=============================================================================
