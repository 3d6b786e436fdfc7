---------------------------- MODULE HashTableRaw ----------------------------
(***************************************************************************)
(* The operations of hashtable.c that the properties of HashTable do not   *)
(* hold for: ht_take, and the two that keep a pointer into the table (head *)
(* of ht_emplace, head of ht_foreach with a body that deletes the iterated *)
(* node) while _adjust_by_density runs.                                    *)
(*                                                                         *)
(* head points to an element of ht->nodes or to the next field of a node.  *)
(* It is recorded as the slot and the key of the node that has the field,  *)
(* NoKey for none.                                                         *)
(***************************************************************************)
EXTENDS HashTable

CONSTANTS NoKey, Freed, Null

VARIABLES
    held,           \* the pointer a call holds: [key, slot, pred], or NoKey
    stale           \* ht->nodes has been freed and replaced since then

rawVars == <<vars, held, stale>>

RawInit == Init /\ held = NoKey /\ stale = FALSE

PointerTo(k) ==
    LET c == nodes[Slot(k, buckets)]
        before == IF Has(k) THEN FindNode(k) - 1 ELSE Len(c)
    IN  [key |-> k, slot |-> Slot(k, buckets),
         pred |-> IF before = 0 THEN NoKey ELSE c[before].key]

(* The key of the node that *head designates: Freed when reading *head     *)
(* reads the freed array, NoKey when there is no node.                     *)
Deref(h) ==
    IF h.pred = NoKey
    THEN CASE stale -> Freed
           [] ~stale /\ nodes[h.slot] = << >> -> NoKey
           [] OTHER -> nodes[h.slot][1].key
    ELSE LET c == nodes[Slot(h.pred, buckets)]
             p == FindNode(h.pred)
         IN  IF p = Len(c) THEN NoKey ELSE c[p + 1].key

----------------------------------------------------------------------------
(* A step of HashTable beside the pointer held.                            *)
Plain ==
    /\ Next
    /\ held' = IF Quiet THEN NoKey ELSE held
    /\ stale' = (~Quiet /\ (stale \/ RehashEnd))

(* ht_emplace: _new_node with value NULL, then the resize; the pointer is *)
(* returned when the call is over.                                         *)
Emplace(k) ==
    /\ Set(k, Null)
    /\ held' = PointerTo(k)
    /\ stale' = FALSE

(* ht_foreach whose body calls ht_delete on the node it was given, here    *)
(* the first of its chain.                                                 *)
ForeachDelete ==
    /\ AtNode /\ pos = 1
    /\ held' = [key |-> nodes[i][1].key, slot |-> i, pred |-> NoKey]
    /\ stale' = FALSE
    /\ visited' = Append(visited, nodes[i][1].key)
    /\ nodes' = [nodes EXCEPT ![i] = Tail(@)]
    /\ n_nodes' = n_nodes - 1
    /\ phase' = "adjust"
    /\ UNCHANGED <<buckets, op, rehash, i, pos>>

(* ht_take unlinks the node and then runs _cleanup_node_util on what *head *)
(* points to now, the successor: the successor's key is freed and it is    *)
(* unlinked too, and the node taken is not freed.                          *)
Take(k) ==
    /\ Quiet
    /\ Has(k)
    /\ LET c == nodes[Slot(k, buckets)]
           p == FindNode(k)
       IN  /\ nodes' = [nodes EXCEPT ![Slot(k, buckets)] =
                            SubSeq(c, 1, p - 1) \o SubSeq(c, p + 2, Len(c))]
           /\ n_nodes' = IF p = Len(c) THEN n_nodes ELSE n_nodes - 1
    /\ held' = NoKey /\ stale' = FALSE
    /\ phase' = "adjust"
    /\ UNCHANGED <<buckets, op, rehash, i, pos, visited>>

EmplaceSpec == RawInit /\ [][Plain \/ \E k \in Key : Emplace(k) \/ Take(k)]_rawVars
ForeachSpec == RawInit /\ [][Plain \/ ForeachDelete]_rawVars

----------------------------------------------------------------------------
(* ht_emplace "returns a pointer to the value in the k/v pair"             *)
(* (hashtable.c:302): when it is done, *head is the node of its key.       *)
EmplaceReturnsItsPair == Quiet /\ held # NoKey => Deref(held) = held.key

(* ht_foreach is "Self deletion safe" (hashtable.c:371): after body has    *)
(* deleted the iterated node, post = *head reads an array that is there,   *)
(* also when the deletion has resized the table: shrunk it, or made it     *)
(* grow because overwrites have driven n_nodes up.                         *)
SelfDeletionSafe ==
    op = "foreach" /\ phase = "none" /\ held # NoKey => Deref(held) # Freed
=============================================================================
