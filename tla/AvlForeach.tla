----------------------------- MODULE AvlForeach -----------------------------
(***************************************************************************)
(* avl_foreach of src/src/global/data-structures/avl.c, on the trees that  *)
(* AvlTree builds.  It changes nothing: a walk is a recursive operator.    *)
(***************************************************************************)
EXTENDS AvlTree, SequencesExt

(* The mutant with the first two steps of every order exchanged.           *)
StepsSwapped ==
    [in_order           |-> <<"body", "left", "right">>,
     pre_order          |-> <<"left", "body", "right">>,
     post_order         |-> <<"right", "left", "body">>,
     in_order_reverse   |-> <<"body", "right", "left">>,
     pre_order_reverse  |-> <<"left", "right", "body">>,
     post_order_reverse |-> <<"right", "body", "left">>]

(* _steps: the order of the two subtrees and the node itself.              *)
Steps ==
    [in_order           |-> <<"left", "body", "right">>,
     pre_order          |-> <<"body", "left", "right">>,
     post_order         |-> <<"left", "right", "body">>,
     in_order_reverse   |-> <<"right", "body", "left">>,
     pre_order_reverse  |-> <<"right", "left", "body">>,
     post_order_reverse |-> <<"body", "right", "left">>]

(* _body: the body is passed a node, and answers 0 to the call number      *)
(* stop.  A walk is the nodes passed and what has become of it.            *)
Body(w, n, stop) ==
    [seen |-> Append(w.seen, n), out |-> IF Len(w.seen) + 1 = stop THEN "stop" ELSE w.out]

(* _foreach_order, with _left and _right, which dereference cur: NULL too. *)
RECURSIVE Walk(_, _, _, _, _)
Walk(order, i, cur, w, stop) ==
    IF i > 3 \/ w.out # "go" THEN w
    ELSE LET step == Steps[order][i]
             dir  == IF step = "left" THEN LEFT ELSE RIGHT
         IN  Walk(order, i + 1, cur,
                  CASE step = "body" -> Body(w, cur, stop)
                    [] step # "body" /\ cur = Null -> [w EXCEPT !.out = "crash"]
                    [] OTHER -> Walk(order, 1, heap.child[cur][dir], w, stop),
                  stop)

(* _foreach_breadth: when the queue is empty, ll_get returns its header,   *)
(* and what is behind that on the stack is read as an element.  This is    *)
(* undefined; the walk is taken to end there, as with NULL.                *)
RECURSIVE Breadth(_, _, _)
Breadth(queue, w, stop) ==
    LET kids == SelectSeq(<<heap.child[Head(queue)][LEFT], heap.child[Head(queue)][RIGHT]>>,
                          LAMBDA p : p # Null)
    IN  CASE w.out # "go"  -> w
          [] w.out = "go" /\ queue = << >> -> [w EXCEPT !.out = "crash"]
          [] OTHER -> Breadth(Tail(queue) \o kids, Body(w, Head(queue), stop), stop)

(* avl_foreach.                                                            *)
Foreach(order, stop) ==
    LET w == [seen |-> << >>, out |-> "go"]
    IN  CASE order # "breadth" -> Walk(order, 1, heap.root, w, stop)
          [] order = "breadth" /\ heap.root = Null -> w
          [] OTHER -> Breadth(<<heap.root>>, w, stop)

----------------------------------------------------------------------------
(* Reference definitions: the nodes below p in a given order.              *)
RECURSIVE Listing(_, _)
Listing(kind, p) ==
    LET l == Listing(kind, heap.child[p][LEFT])
        r == Listing(kind, heap.child[p][RIGHT])
    IN  CASE p = Null -> << >>
          [] p # Null /\ kind = "in"   -> l \o <<p>> \o r
          [] p # Null /\ kind = "pre"  -> <<p>> \o l \o r
          [] p # Null /\ kind = "post" -> l \o r \o <<p>>

RECURSIVE Level(_)
Level(set) ==
    IF set = {} THEN << >>
    ELSE SetToSortSeq(set, LAMBDA a, b : a < b)
         \o Level({heap.child[n][d] : n \in set, d \in {LEFT, RIGHT}} \ {Null})

Expected(order) ==
    CASE order = "in_order"           -> Listing("in", heap.root)
      [] order = "pre_order"          -> Listing("pre", heap.root)
      [] order = "post_order"         -> Listing("post", heap.root)
      [] order = "in_order_reverse"   -> Reverse(Listing("in", heap.root))
      [] order = "pre_order_reverse"  -> Reverse(Listing("pre", heap.root))
      [] order = "post_order_reverse" -> Reverse(Listing("post", heap.root))
      [] order = "breadth"            -> Level({heap.root} \ {Null})

----------------------------------------------------------------------------
(* However far avl_foreach gets before body stops it, it dereferences NULL *)
(* or it takes the header of the queue for an element, it has passed body  *)
(* the first nodes of its order, and then at most NULL.                    *)
ForeachInOrder ==
    \A order \in DOMAIN Steps \cup {"breadth"} : \A stop \in 1 .. Cardinality(Node) :
        LET s == Foreach(order, stop).seen
        IN  IsPrefix(IF s # << >> /\ Last(s) = Null THEN Front(s) ELSE s, Expected(order))
=============================================================================
