------------------------------ MODULE AvlTree ------------------------------
(***************************************************************************)
(* The tree of src/src/global/data-structures/avl.c, pointer by pointer.   *)
(* A node is its key.  An avl_node_st ** is the place of a pointer: << >>  *)
(* for tree->root, <<n, d>> for n->child[d].  Dereferencing NULL ends the  *)
(* process.  The client hands avl_add zeroed nodes that it has not added   *)
(* before, or that avl_del has given back.                                 *)
(*                                                                         *)
(* _rotate never stores the new root of the part it turns, and             *)
(* _del_with_swap exchanges two nodes but not their children, so both lose *)
(* nodes; what is left must still be a search tree.                        *)
(***************************************************************************)
EXTENDS Integers, Sequences, FiniteSets, FiniteSetsExt

CONSTANTS
    Node,           \* keys
    Null,
    MaxDrift        \* bound: how far a balance may be off before the client
                    \* stops (removals let it drift without limit)

ASSUME AvlAssumption ==
    Node \subseteq Int /\ IsFiniteSet(Node) /\ Null \notin Node /\ MaxDrift \in Nat

VARIABLES
    heap,           \* tree->root, the nodes' fields, whether the process is
                    \* alive, and whether there has been a removal or a repair
                    \* (a rotation or a swap)
    members         \* the client's view: nodes added and not given back

vars == <<heap, members>>

LEFT  == 0
RIGHT == 1
Top   == << >>

(* An empty tree, and zeroed nodes.                                        *)
Zero ==
    [root |-> Null, child |-> [n \in Node |-> [d \in {LEFT, RIGHT} |-> Null]],
     balance |-> [n \in Node |-> 0], alive |-> TRUE, past |-> {}]

Pointer == Node \cup {Null}

Memory  ==
    [root : Pointer, child : [Node -> [{LEFT, RIGHT} -> Pointer]], balance : [Node -> Int],
     alive : BOOLEAN, past : SUBSET {"repair", "removal"}]

TypeOK == heap \in Memory /\ members \subseteq Node

Init == heap = Zero /\ members = {}

----------------------------------------------------------------------------
(* Pointers.                                                               *)
Get(m, at) == IF at = Top THEN m.root ELSE m.child[at[1]][at[2]]

Put(m, at, v) ==
    IF at = Top THEN [m EXCEPT !.root = v]
                ELSE [m EXCEPT !.child[at[1]][at[2]] = v]

AddBalance(m, n, b) == [m EXCEPT !.balance[n] = @ + b]
Crash(m)            == [m EXCEPT !.alive = FALSE]
Repaired(m)         == [m EXCEPT !.past = @ \cup {"repair"}]
AsBalance(dir)      == 2 * dir - 1

(* The nodes that p leads to over at most k pointers, and all of them.     *)
Grown(m, set) == set \cup ({m.child[n][d] : n \in set, d \in {LEFT, RIGHT}} \ {Null})

Near(m, p) ==
    LET near[k \in 0 .. Cardinality(Node)] ==
            IF k = 0 THEN {p} \ {Null} ELSE Grown(m, near[k - 1])
    IN  near

Reach(m, p) == Near(m, p)[Cardinality(Node)]

(* Nodes that no pointer leads to any more are of no consequence: a node   *)
(* is zeroed before it is added again.                                     *)
Collect(m) ==
    LET r == Reach(m, m.root)
    IN  IF ~m.alive THEN [Zero EXCEPT !.alive = FALSE] ELSE
        [m EXCEPT !.child = [n \in Node |-> IF n \in r THEN @[n] ELSE Zero.child[n]],
                  !.balance = [n \in Node |-> IF n \in r THEN @[n] ELSE 0]]

----------------------------------------------------------------------------
(* _rotate: *root stays what it was.                                       *)
Rotate(m, at, dir) ==
    LET old       == Get(m, at)
        new_root  == m.child[old][1 - dir]
        new_child == m.child[new_root][dir]
        turned    == Put(Put(m, <<new_root, dir>>, old), <<old, 1 - dir>>, new_child)
    IN  IF ~m.alive \/ old = Null \/ new_root = Null \/ new_child = Null
        THEN Crash(m)
        ELSE AddBalance(AddBalance(Repaired(turned), new_root, AsBalance(dir)),
                        new_child, - AsBalance(dir))

(* The mutant that takes 2 for balanced enough.                            *)
RebalanceLate(m, at, dir) ==
    IF m.alive /\ m.balance[Get(m, at)] \in {3, -3} THEN Rotate(m, at, 1 - dir) ELSE m

(* _rebalance.                                                             *)
Rebalance(m, at, dir) ==
    LET a == Get(m, at)
        c == m.child[a][dir]
    IN  IF ~m.alive \/ (a # Null /\ m.balance[a] \notin {2, -2}) THEN m
        ELSE IF a = Null \/ c = Null THEN Crash(m)
        ELSE Rotate(IF m.balance[a] * m.balance[c] < 0
                    THEN Rotate(m, <<a, dir>>, dir) ELSE m,
                    at, 1 - dir)

(* The mutant with the sign of cmp the wrong way round.                    *)
SideMirrored(c, n) == IF n < c THEN RIGHT ELSE LEFT

(* Where to go on from c for n.                                            *)
Side(c, n) == IF n < c THEN LEFT ELSE RIGHT

----------------------------------------------------------------------------
(* The recursion of _insert, _delete and _del_with_swap.  None of them     *)
(* changes anything on its way down, so call number k has a place at[k]    *)
(* known beforehand: at node n the next one is n->child[to[n]].            *)
Below(m, at, to) == <<Get(m, at), to[Get(m, at)]>>

Descent(m, from, to) ==
    LET at[k \in 0 .. Cardinality(Node)] == IF k = 0 THEN from ELSE Below(m, at[k - 1], to)
    IN  at

Toward(n) == [c \in Node |-> Side(c, n)]

(* The first of these places that holds one of the given pointers.         *)
Depth(m, at, stop) ==
    CHOOSE k \in 0 .. Cardinality(Node) :
        Get(m, at[k]) \in stop /\ \A j \in 0 .. k - 1 : Get(m, at[j]) \notin stop

(* The arguments dir and parent_balance of a call for a place.             *)
Dir(at)              == IF at = Top THEN RIGHT ELSE at[2]
ParentBalance(m, at) == IF at = Top THEN 0 ELSE m.balance[at[1]]

(* A call on its way back up, when the one below has returned sub, a       *)
(* memory and a balance: the call stores the balance in its node c,        *)
(* rebalances towards dir and returns one balance or another for its       *)
(* parent, as its own has changed (an insertion: to other than 0; a        *)
(* removal: to 0).                                                         *)
Returned(m, at, sub, dir, inserting, same, changed) ==
    LET c    == Get(m, at)
        done == Rebalance([sub.m EXCEPT !.balance[c] = sub.balance], at, dir)
        now  == done.balance[Get(done, at)]
    IN  [m |-> done,
         balance |-> IF now # m.balance[c] /\ (now # 0) = inserting THEN changed ELSE same]

(* All calls up from the one for at[depth], which returns last.            *)
Back(m, at, depth, last, turn, inserting, same, changed) ==
    LET up[k \in 0 .. depth] ==
            IF k = depth THEN last
            ELSE Returned(m, at[k], up[k + 1], turn[k], inserting, same[k], changed[k])
    IN  up

(* _insert: the memory it leaves.                                          *)
Insert(m, n) ==
    LET at      == Descent(m, Top, Toward(n))
        depth   == Depth(m, at, {Null})
        same    == [k \in 0 .. depth |-> ParentBalance(m, at[k])]
        changed == [k \in 0 .. depth |-> same[k] + AsBalance(Dir(at[k]))]
    IN  Back(m, at, depth, [m |-> Put(m, at[depth], n), balance |-> changed[depth]],
             [k \in 0 .. depth |-> Dir(at[k + 1])], TRUE, same, changed)[0].m

Bounded == \A n \in Node : heap.balance[n] \in -MaxDrift .. MaxDrift

(* avl_add.                                                                *)
Add(n) ==
    /\ heap.alive /\ n \notin members /\ Bounded
    /\ heap' = Collect(Insert(heap, n))
    /\ members' = members \cup {n}

----------------------------------------------------------------------------
(* _swap exchanges two pointers and the balances of what they point to.    *)
SwapNodes(m, a, b) ==
    LET p == Get(m, a)
        q == Get(m, b)
        s == Put(Put(m, a, q), b, p)
    IN  [s EXCEPT !.balance[q] = m.balance[p], !.balance[p] = m.balance[q],
                  !.past = @ \cup {"repair"}]

(* _del_with_swap on the child of *to_del on a side: the node farthest to  *)
(* the other side there is exchanged with *to_del.                         *)
DelWithSwap(m, to_del, side) ==
    LET at      == Descent(m, <<Get(m, to_del), side>>, [n \in Node |-> 1 - side])
        last    == Depth(m, at, {Null}) - 1
        s       == SwapNodes(m, at[last], to_del)
        same    == [k \in 0 .. last |-> IF k = 0 THEN 0 ELSE ParentBalance(m, at[k])]
        changed == [k \in 0 .. last |-> same[k] + AsBalance(side)]
    IN  Back(m, at, last, [m |-> Put(s, at[last], s.child[Get(s, at[last])][side]),
                           balance |-> changed[last]],
             [k \in 0 .. last |-> side], FALSE, same, changed)[0]

(* _delete at the place of the node to be removed, when _del_with_swap has *)
(* returned swap: the balance of the node that is there now, and, when it  *)
(* has rebalanced that, whether it returns the changed balance.            *)
Lightened(swap, at, side) ==
    AddBalance(swap.m, Get(swap.m, at), IF swap.balance # 0 THEN - AsBalance(side) ELSE 0)

Rebalanced(done, at, prev) ==
    LET now == done.balance[Get(done, at)]
    IN  [m |-> done, changed |-> now = 0 /\ now # prev]

(* What _delete does there when the node has a child, the left one first.  *)
Replace(m, at) ==
    LET c    == Get(m, at)
        side == IF m.child[c][LEFT] # Null THEN LEFT ELSE RIGHT
    IN  Rebalanced(Rebalance(Lightened(DelWithSwap(m, at, side), at, side), at, 1 - side),
                   at, m.balance[c])

(* _delete: the memory it leaves and the node found.                       *)
Delete(m, n) ==
    LET at      == Descent(m, Top, Toward(n))
        depth   == Depth(m, at, {Null, n})
        here    == at[depth]
        c       == Get(m, here)
        same    == [k \in 0 .. depth |-> ParentBalance(m, at[k])]
        changed == [k \in 0 .. depth |-> same[k] + AsBalance(Dir(at[k]))]
        leaf    == m.child[c][LEFT] = Null /\ m.child[c][RIGHT] = Null
        other   == Replace(m, here)
        last    == IF c = Null THEN [m |-> m, balance |-> same[depth]]
                   ELSE IF leaf
                   THEN [m |-> Put([m EXCEPT !.past = @ \cup {"removal"}], here, Null),
                         balance |-> same[depth] - AsBalance(Dir(here))]
                   ELSE [m |-> other.m,
                         balance |-> IF other.changed THEN changed[depth] ELSE same[depth]]
    IN  [m |-> Back(m, at, depth, last, [k \in 0 .. depth |-> 1 - Dir(at[k + 1])],
                    FALSE, same, changed)[0].m,
         found |-> c]

(* avl_del.                                                                *)
Del(n) ==
    LET r == Delete(heap, n)
    IN  /\ heap.alive /\ Bounded
        /\ heap' = Collect(r.m)
        /\ members' = members \ {r.found}

(* avl_alloc: another tree, or the next process after a crash.             *)
Alloc == heap' = Zero /\ members' = {}

Next == Alloc \/ \E n \in Node : Add(n) \/ Del(n)
Spec == Init /\ [][Next]_vars

----------------------------------------------------------------------------
(* The calls that only read.  _find_eq:                                    *)
FindEq(n) ==
    LET at == Descent(heap, Top, Toward(n))
    IN  Get(heap, at[Depth(heap, at, {Null, n})])

(* The mutant of avl_min and avl_max with an if for the while.             *)
OutermostOnce(dir) ==
    LET cur == heap.root
    IN  IF cur = Null \/ heap.child[cur][dir] = Null THEN cur ELSE heap.child[cur][dir]

(* avl_min and avl_max: the node whose pointer to that side is NULL.       *)
Outermost(dir) ==
    LET at == Descent(heap, Top, [n \in Node |-> dir])
    IN  IF heap.root = Null THEN Null ELSE at[Depth(heap, at, {Null})][1]

----------------------------------------------------------------------------
(* Properties.                                                             *)

(* What tree->root leads to is a search tree, whatever the rotations and   *)
(* swaps have lost: below a node, the smaller keys are on the left and the *)
(* greater on the right, and no pointer leads back.                        *)
SearchTree ==
    TypeOK /\ \A n \in Reach(heap, heap.root) :
        /\ \A k \in Reach(heap, heap.child[n][LEFT]) : k < n
        /\ \A k \in Reach(heap, heap.child[n][RIGHT]) : k > n

(* The sign convention of cmp is the same in _insert, _delete and          *)
(* _find_eq: every node that is still in the tree is found, and avl_min    *)
(* and avl_max return the ends.                                            *)
FindsWhatIsThere ==
    LET r == Reach(heap, heap.root)
    IN  /\ \A n \in Node : FindEq(n) = IF n \in r THEN n ELSE Null
        /\ r # {} => /\ Outermost(LEFT) = Min(r)
                     /\ Outermost(RIGHT) = Max(r)

(* The height of the tree below p.                                         *)
Height[p \in Pointer] ==
    IF p = Null THEN 0 ELSE 1 + Max({Height[heap.child[p][d]] : d \in {LEFT, RIGHT}})

(* Nothing is lost until the first rotation or removal of an inner node    *)
(* (avl.c:41, 102), and until the first removal, after which the balances  *)
(* are wrong (avl.c:171), each balance is the difference of the heights    *)
(* and at most 1.                                                          *)
SoundUntilRepair ==
    heap.alive /\ "repair" \notin heap.past =>
        /\ Reach(heap, heap.root) = members
        /\ "removal" \notin heap.past =>
              \A n \in members :
                  /\ heap.balance[n] = Height[heap.child[n][RIGHT]] - Height[heap.child[n][LEFT]]
                  /\ heap.balance[n] \in -1 .. 1
=============================================================================
