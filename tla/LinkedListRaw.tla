---------------------------- MODULE LinkedListRaw ----------------------------
(***************************************************************************)
(* What linkedlist.h says more about than linkedlist.c does: ll_remove of  *)
(* a header, ll_push_front through the next field of a node, and ll_find.  *)
(***************************************************************************)
EXTENDS LinkedList

VARIABLES
    within, at,     \* list and cur of ll_find, or None outside it
    wanted,         \* the nodes the predicate is true of
    asked           \* parity of the calls of the predicate

find    == <<within, at, wanted, asked>>
rawVars == <<vars, find>>

RawInit == Init /\ within = None /\ at = None /\ wanted = {} /\ asked = 0

Plain == at = None /\ Next /\ UNCHANGED find

(* ll_remove passed a header.                                              *)
RemoveHeader(h) ==
    /\ at = None /\ Idle
    /\ Unlink(h)
    /\ UNCHANGED <<front, loop, find>>

(* ll_push_front(&x->next, src).  What dst points to is next[x], and the   *)
(* second store (linkedlist.c:39) changes it before it is read again: what *)
(* was behind x keeps x as its predecessor, and src its own.               *)
PushFrontBehind(x, src) ==
    LET joined == [next EXCEPT ![prev[src]] = next[x]]
        stored == [joined EXCEPT ![prev[joined[x]]] = src]
        dst    == stored[x]
    IN  /\ at = None /\ Idle
        /\ x \in Header \cup linked /\ src \in linked /\ Apart(x, src)
        /\ next' = [stored EXCEPT ![x] = src]
        /\ prev' = [prev EXCEPT ![src] = prev[dst], ![dst] = prev[src]]
        /\ UNCHANGED <<linked, front, loop, find>>

(* ll_find.                                                                *)
FindBegin(h, w) ==
    /\ at = None /\ Idle
    /\ within' = h /\ at' = next[h] /\ wanted' = w
    /\ UNCHANGED <<vars, asked>>

(* An iteration: pred is called, and cur is returned if it holds.          *)
FindStep ==
    /\ at \notin {None, within}
    /\ asked' = 1 - asked
    /\ \/ at \in wanted /\ within' = None /\ at' = None
       \/ at \notin wanted /\ UNCHANGED <<within, at>>
    /\ UNCHANGED <<vars, wanted>>

(* The loop is over.                                                       *)
FindEnd ==
    /\ at # None /\ at = within
    /\ within' = None /\ at' = None
    /\ UNCHANGED <<vars, wanted, asked>>

Find == FindStep \/ FindEnd

(* linkedlist.c with a client that also makes these calls.  A search runs  *)
(* on: nothing in ll_find waits.                                           *)
RawNext ==
    \/ Plain \/ Find
    \/ \E x \in All, src \in Node : PushFrontBehind(x, src)
    \/ \E h \in Header : RemoveHeader(h) \/ \E w \in SUBSET Node : FindBegin(h, w)
RawSpec == RawInit /\ [][RawNext]_rawVars /\ WF_rawVars(Find)

----------------------------------------------------------------------------
(* ll_find returns "the first node that satisfies the predicate, or NULL   *)
(* if none" (linkedlist.h:105); its loop does not advance                  *)
(* (linkedlist.c:97-101).                                                  *)
FindReturns == at # None ~> at = None
=============================================================================
