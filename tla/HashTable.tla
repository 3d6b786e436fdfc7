----------------------------- MODULE HashTable -----------------------------
(***************************************************************************)
(* The chained hash table of src/src/global/data-structures/hashtable.c.   *)
(* A chain is the sequence of its nodes.  A client's call is one step; the *)
(* loops inside the calls (the rehash of _adjust_by_density, ht_purge and  *)
(* ht_foreach) take one step per node.  HashTableRaw adds the operations   *)
(* that hold pointers into the table across a resize.                      *)
(***************************************************************************)
EXTENDS Integers, Sequences, FiniteSets, Functions, SequencesExt, FiniteSetsExt

CONSTANTS
    Key, Value,
    NoValue,        \* "not in the table": what ht_get returns for NULL
    Hash(_),        \* ht->hash
    Primes,         \* _primes, first to last
    MaxNodes        \* bound: n_nodes at which the client stops setting

ASSUME TableAssumption ==
    /\ Primes \in Seq(Nat \ {0}) /\ Primes # << >>
    /\ \A k \in Key : Hash(k) \in Nat
    /\ NoValue \notin Value
    /\ MaxNodes \in Nat

VARIABLES
    buckets,        \* ht->buckets: which prime is in use
    nodes,          \* ht->nodes: the chains
    n_nodes,        \* ht->n_nodes
    op,             \* the call in progress
    phase,          \* where its _adjust_by_density is, if it is in it
    new_bucks, new_nodes, j,    \* the locals of _adjust_by_density (j is its i)
    i, pos,         \* the bucket a loop has reached, and the place in its chain
    visited         \* ht_foreach: the keys passed to body so far, in order

table    == <<buckets, nodes, n_nodes>>
rehash   == <<new_bucks, new_nodes, j>>
vars     == <<table, op, phase, rehash, i, pos, visited>>

Node  == [key : Key, value : Value]
Prime(b) == Primes[b + 1]
Slots(b) == 0 .. (Prime(b) - 1)
Index == 0 .. (Len(Primes) - 1)
Empty(b) == [s \in Slots(b) |-> << >>]

TypeOK ==
    /\ buckets \in Index
    /\ nodes \in [Slots(buckets) -> Seq(Node)]
    /\ n_nodes \in Nat
    /\ op \in {"idle", "purge", "free", "foreach"}
    /\ phase \in {"none", "adjust", "rehash"}
    /\ new_bucks \in Index
    /\ new_nodes \in [Slots(new_bucks) -> Seq(Node)]
    /\ i \in Nat /\ j \in Nat /\ pos \in Nat
    /\ visited \in Seq(Key)

(* ht_alloc.                                                               *)
Init ==
    /\ buckets = 0 /\ nodes = Empty(0) /\ n_nodes = 0
    /\ op = "idle" /\ phase = "none"
    /\ new_bucks = 0 /\ new_nodes = Empty(0) /\ j = 0
    /\ i = 0 /\ pos = 1 /\ visited = << >>

----------------------------------------------------------------------------
KeyIn(chain, k) == \E p \in DOMAIN chain : chain[p].key = k

(* _find_node: the chain of a key, and the place of the key in it.         *)
Slot(k, b) == Hash(k) % Prime(b)
FindNode(k) == CHOOSE p \in DOMAIN nodes[Slot(k, buckets)] :
                   nodes[Slot(k, buckets)][p].key = k

(* ht_has and ht_get: both look only into the chain of the key.            *)
Has(k) == KeyIn(nodes[Slot(k, buckets)], k)
Get(k) == IF Has(k) THEN nodes[Slot(k, buckets)][FindNode(k)].value ELSE NoValue

Quiet == op = "idle" /\ phase = "none"

(* The locals of a loop go out of scope.                                   *)
LoopDone == i' = 0 /\ pos' = 1 /\ visited' = << >>

----------------------------------------------------------------------------
(* The mutant that adds a node in front without looking for the key.       *)
SetPrepends(k, v) ==
    /\ Quiet
    /\ n_nodes < MaxNodes
    /\ nodes' = [nodes EXCEPT ![Slot(k, buckets)] = <<[key |-> k, value |-> v]>> \o @]
    /\ n_nodes' = n_nodes + 1
    /\ phase' = "adjust"
    /\ UNCHANGED <<buckets, op, rehash, i, pos, visited>>

(* ht_set, _new_node: an existing node gets the value, a new one is hung   *)
(* at the end of the chain.  n_nodes is incremented in both cases; only a  *)
(* new node leads to _adjust_by_density.  When the calloc of a new node    *)
(* fails nothing changes; the copies of key and value are taken not to     *)
(* fail (_cleanup_node would run on a node without owner, or free one that *)
(* stays in its chain).                                                    *)
Set(k, v) ==
    /\ Quiet
    /\ n_nodes < MaxNodes
    /\ n_nodes' = n_nodes + 1
    /\ \/ /\ Has(k)
          /\ nodes' = [nodes EXCEPT ![Slot(k, buckets)][FindNode(k)].value = v]
          /\ UNCHANGED phase
       \/ /\ ~Has(k)
          /\ nodes' = [nodes EXCEPT ![Slot(k, buckets)] =
                           Append(@, [key |-> k, value |-> v])]
          /\ phase' = "adjust"
    /\ UNCHANGED <<buckets, op, rehash, i, pos, visited>>

(* The mutant that counts a deletion of an absent key too.                 *)
DeleteCountsMisses(k) ==
    /\ Quiet
    /\ nodes' = IF Has(k) THEN [nodes EXCEPT ![Slot(k, buckets)] = RemoveAt(@, FindNode(k))]
                          ELSE nodes
    /\ n_nodes' = n_nodes - 1
    /\ phase' = "adjust"
    /\ UNCHANGED <<buckets, op, rehash, i, pos, visited>>

(* ht_delete.  Without the key it does nothing.                            *)
Delete(k) ==
    /\ Quiet
    /\ Has(k)
    /\ nodes' = [nodes EXCEPT ![Slot(k, buckets)] = RemoveAt(@, FindNode(k))]
    /\ n_nodes' = n_nodes - 1
    /\ phase' = "adjust"
    /\ UNCHANGED <<buckets, op, rehash, i, pos, visited>>

----------------------------------------------------------------------------
(* _adjust_by_density.                                                     *)

(* density <= 0.25, density >= 2.0.                                        *)
TooSparse == buckets > 0 /\ 4 * n_nodes <= Prime(buckets)
TooDense  == buckets < Len(Primes) - 1 /\ n_nodes >= 2 * Prime(buckets)

NewBucks == IF TooSparse THEN buckets - 1 ELSE buckets + 1

(* The new array is allocated and the loop begins.                         *)
AdjustBegin ==
    /\ phase = "adjust"
    /\ TooSparse \/ TooDense
    /\ new_bucks' = NewBucks
    /\ new_nodes' = Empty(NewBucks)
    /\ j' = 0
    /\ phase' = "rehash"
    /\ UNCHANGED <<table, op, i, pos, visited>>

(* The density is in range, or calloc fails.                               *)
AdjustReturn ==
    /\ phase = "adjust"
    /\ phase' = "none"
    /\ UNCHANGED <<table, op, rehash, i, pos, visited>>

(* The mutant that moves a node to the bucket of the old size.             *)
RehashOldSlot ==
    /\ phase = "rehash"
    /\ j \in Slots(buckets) /\ nodes[j] # << >>
    /\ LET s == j % Prime(new_bucks) IN
       new_nodes' = [new_nodes EXCEPT ![s] = <<Head(nodes[j])>> \o @]
    /\ nodes' = [nodes EXCEPT ![j] = Tail(@)]
    /\ UNCHANGED <<buckets, n_nodes, op, phase, new_bucks, j, i, pos, visited>>

(* The mutant that loses the chain already in the new bucket.              *)
RehashLosesChain ==
    /\ phase = "rehash"
    /\ j \in Slots(buckets) /\ nodes[j] # << >>
    /\ LET s == Slot(Head(nodes[j]).key, new_bucks) IN
       new_nodes' = [new_nodes EXCEPT ![s] = <<Head(nodes[j])>>]
    /\ nodes' = [nodes EXCEPT ![j] = Tail(@)]
    /\ UNCHANGED <<buckets, n_nodes, op, phase, new_bucks, j, i, pos, visited>>

(* The head of chain j becomes the head of its new chain.                  *)
RehashNode ==
    /\ phase = "rehash"
    /\ j \in Slots(buckets) /\ nodes[j] # << >>
    /\ LET s == Slot(Head(nodes[j]).key, new_bucks) IN
       new_nodes' = [new_nodes EXCEPT ![s] = <<Head(nodes[j])>> \o @]
    /\ nodes' = [nodes EXCEPT ![j] = Tail(@)]
    /\ UNCHANGED <<buckets, n_nodes, op, phase, new_bucks, j, i, pos, visited>>

(* The mutant that skips the increment of j.                               *)
RehashStuck ==
    /\ phase = "rehash"
    /\ j \in Slots(buckets) /\ nodes[j] = << >>
    /\ UNCHANGED vars

RehashNextBucket ==
    /\ phase = "rehash"
    /\ j \in Slots(buckets) /\ nodes[j] = << >>
    /\ j' = j + 1
    /\ UNCHANGED <<table, op, phase, new_bucks, new_nodes, i, pos, visited>>

(* The old array is freed and replaced.                                    *)
RehashEnd ==
    /\ phase = "rehash"
    /\ j \notin Slots(buckets)
    /\ nodes' = new_nodes
    /\ buckets' = new_bucks
    /\ phase' = "none"
    /\ new_nodes' = Empty(0) /\ new_bucks' = 0 /\ j' = 0
    /\ UNCHANGED <<n_nodes, op, i, pos, visited>>

Adjust == AdjustBegin \/ AdjustReturn \/ RehashNode \/ RehashNextBucket \/ RehashEnd

----------------------------------------------------------------------------
(* ht_purge and ht_free.                                                   *)
PurgeBegin ==
    /\ Quiet
    /\ op' \in {"purge", "free"}
    /\ UNCHANGED <<table, phase, rehash, i, pos, visited>>

PurgeNode ==
    /\ op \in {"purge", "free"}
    /\ i \in Slots(buckets) /\ nodes[i] # << >>
    /\ nodes' = [nodes EXCEPT ![i] = Tail(@)]
    /\ n_nodes' = n_nodes - 1
    /\ UNCHANGED <<buckets, op, phase, rehash, i, pos, visited>>

PurgeNextBucket ==
    /\ op \in {"purge", "free"}
    /\ i \in Slots(buckets) /\ nodes[i] = << >>
    /\ i' = i + 1
    /\ UNCHANGED <<table, op, phase, rehash, pos, visited>>

(* ht_purge keeps the size of the array and what n_nodes has left over.    *)
PurgeEnd ==
    /\ op = "purge"
    /\ i \notin Slots(buckets)
    /\ op' = "idle"
    /\ LoopDone
    /\ UNCHANGED <<table, phase, rehash>>

(* ht_free frees the array too; the client allocates a new table.          *)
FreeEnd ==
    /\ op = "free"
    /\ i \notin Slots(buckets)
    /\ op' = "idle"
    /\ buckets' = 0 /\ nodes' = Empty(0) /\ n_nodes' = 0
    /\ LoopDone
    /\ UNCHANGED <<phase, rehash>>

----------------------------------------------------------------------------
(* ht_foreach, with a body that leaves the table alone.  pos is the place  *)
(* of *head in chain i.                                                    *)
AtNode == op = "foreach" /\ phase = "none" /\ i \in Slots(buckets) /\ pos \in DOMAIN nodes[i]

ForeachBegin ==
    /\ Quiet
    /\ op' = "foreach"
    /\ UNCHANGED <<table, phase, rehash, i, pos, visited>>

(* body returns a positive value: head moves on.                           *)
ForeachVisit ==
    /\ AtNode
    /\ visited' = Append(visited, nodes[i][pos].key)
    /\ pos' = pos + 1
    /\ UNCHANGED <<table, op, phase, rehash, i>>

(* body returns zero or a negative value.                                  *)
ForeachStop ==
    /\ AtNode
    /\ op' = "idle"
    /\ LoopDone
    /\ UNCHANGED <<table, phase, rehash>>

(* The mutant that keeps the place in the chain for the next bucket.       *)
ForeachKeepsHead ==
    /\ op = "foreach" /\ phase = "none"
    /\ i \in Slots(buckets) /\ pos \notin DOMAIN nodes[i]
    /\ i' = i + 1
    /\ UNCHANGED <<table, op, phase, rehash, pos, visited>>

ForeachNextBucket ==
    /\ op = "foreach" /\ phase = "none"
    /\ i \in Slots(buckets) /\ pos \notin DOMAIN nodes[i]
    /\ i' = i + 1 /\ pos' = 1
    /\ UNCHANGED <<table, op, phase, rehash, visited>>

ForeachEnd ==
    /\ op = "foreach" /\ phase = "none"
    /\ i \notin Slots(buckets)
    /\ op' = "idle"
    /\ LoopDone
    /\ UNCHANGED <<table, phase, rehash>>

----------------------------------------------------------------------------
Internal ==
    \/ Adjust
    \/ PurgeNode \/ PurgeNextBucket \/ PurgeEnd \/ FreeEnd
    \/ ForeachVisit \/ ForeachStop \/ ForeachNextBucket \/ ForeachEnd

Next ==
    \/ \E k \in Key : Delete(k) \/ \E v \in Value : Set(k, v)
    \/ PurgeBegin \/ ForeachBegin
    \/ Internal

(* A call runs to its end; the client need not make another.               *)
Spec == Init /\ [][Next]_vars /\ WF_vars(Internal)

----------------------------------------------------------------------------
(* Properties.                                                             *)

(* The nodes of an array of chains and their places; all nodes, wherever   *)
(* they hang, and the mapping they stand for.                              *)
NodesOf(f) == UNION {Range(f[s]) : s \in DOMAIN f}
Places(f)  == UNION {{s} \X DOMAIN f[s] : s \in DOMAIN f}

AllNodes  == NodesOf(nodes) \cup NodesOf(new_nodes)
NodeCount == Cardinality(Places(nodes)) + Cardinality(Places(new_nodes))
Contents  == [k \in Key |-> IF \E n \in AllNodes : n.key = k
                            THEN (CHOOSE n \in AllNodes : n.key = k).value
                            ELSE NoValue]

(* Outside a resize every key that has a node, in whatever chain, is found *)
(* by looking into one chain, and with the value of that node: no order of *)
(* growing and shrinking misplaces a node (hashtable.c:212-250, 321-345).  *)
LookupFindsAll == phase = "none" => \A k \in Key : Get(k) = Contents[k]

(* No key has two nodes, not even half-way through a rehash, so that       *)
(* ht_delete removes a key for good (hashtable.c:289-291).                 *)
NoDuplicates == NodeCount = Cardinality({n.key : n \in AllNodes})

(* n_nodes never falls below the number of nodes, so that the size_t does  *)
(* not wrap around in _cleanup_node_util (hashtable.c:177).  It may exceed *)
(* it: ht_set counts an overwrite (hashtable.c:280).                       *)
SizeNeverUnder == TypeOK /\ NodeCount <= n_nodes

(* When ht_foreach returns 1 it has passed every key exactly once to a     *)
(* body that leaves the table alone (hashtable.c:372-393).                 *)
ForeachExact ==
    op = "foreach" /\ i \notin Slots(buckets) =>
        /\ Range(visited) = {n.key : n \in AllNodes}
        /\ Len(visited) = Cardinality(Range(visited))

(* The table is a dictionary: a step of a call changes it at one key at    *)
(* most, and a resize not at all.                                          *)
Dict == INSTANCE Dictionary WITH dict <- Contents, resizing <- (phase # "none")
ImplementsDictionary == Dict!Spec

(* Every call returns, the ones that resize included.                      *)
CallsReturn == (op # "idle" \/ phase # "none") ~> (op = "idle" /\ phase = "none")
=============================================================================
