-------------------------- MODULE HashTableProofs --------------------------
(***************************************************************************)
(* Proofs about HashTable, for every set of keys and values, every hash    *)
(* function and every list of array sizes: n_nodes never falls below the   *)
(* number of nodes, ht_get finds every key, a key has one node, ht_foreach *)
(* passes every node once, and the table implements Dictionary.  All of it *)
(* follows from Shape, which also says how far _adjust_by_density and      *)
(* ht_purge have come while they move or free the chains node by node.     *)
(***************************************************************************)
EXTENDS HashTable, SequenceTheorems, FiniteSetTheorems, TLAPS

(* A node is its key and its value.                                        *)
LEMMA NodeForm ==
  ASSUME NEW n \in Node
  PROVE  n.key \in Key /\ n.value \in Value /\ n = [key |-> n.key, value |-> n.value]
BY DEF Node

----------------------------------------------------------------------------
(* What the calls do to one chain.                                         *)

Distinct(c) == \A p, q \in DOMAIN c : c[p].key = c[q].key => p = q

(* d is chain c with node n added to it, at whichever place.               *)
Extends(d, c, n) ==
    /\ d \in Seq(Node) /\ Distinct(d)
    /\ Len(d) = Len(c) + 1
    /\ Range(d) = Range(c) \cup {n}

(* d is chain c without the node n.                                        *)
Shortens(d, c, n) ==
    /\ d \in Seq(Node) /\ Distinct(d)
    /\ n \in Range(c)
    /\ Len(d) = Len(c) - 1
    /\ Range(d) = Range(c) \ {n}

(* ht_set hangs a new node at the end of the chain.                        *)
LEMMA AppendExtends ==
  ASSUME NEW c \in Seq(Node), Distinct(c), NEW n \in Node, ~KeyIn(c, n.key)
  PROVE  Extends(Append(c, n), c, n)
<1> DEFINE d == Append(c, n)
<1>1. d \in Seq(Node) /\ Len(d) = Len(c) + 1 /\ Len(c) \in Nat /\ DOMAIN c = 1 .. Len(c)
  OBVIOUS
<1>2. DOMAIN d = 1 .. (Len(c) + 1) /\ d[Len(c) + 1] = n /\ \A p \in 1 .. Len(c) : d[p] = c[p]
  OBVIOUS
<1> HIDE DEF d
<1>3. \A p \in DOMAIN d : p \in 1 .. Len(c) \/ p = Len(c) + 1
  BY <1>1, <1>2
<1>4. Distinct(d)
  BY <1>1, <1>2, <1>3 DEF Distinct, KeyIn
<1>5. Range(d) = Range(c) \cup {n}
  <2>1. Len(c) + 1 \in DOMAIN d /\ \A p \in DOMAIN c : p \in DOMAIN d
    BY <1>1, <1>2
  <2> QED BY <1>1, <1>2, <1>3, <2>1 DEF Range
<1> QED BY <1>1, <1>4, <1>5 DEF Extends, d

(* The rehash puts a node in front of its new chain.                       *)
LEMMA PrependExtends ==
  ASSUME NEW c \in Seq(Node), Distinct(c), NEW n \in Node, ~KeyIn(c, n.key)
  PROVE  Extends(<<n>> \o c, c, n)
<1> DEFINE d == <<n>> \o c
<1>1. d \in Seq(Node) /\ Len(d) = Len(c) + 1 /\ Len(c) \in Nat /\ DOMAIN c = 1 .. Len(c)
  OBVIOUS
<1>2. DOMAIN d = 1 .. (Len(c) + 1) /\ d[1] = n /\ \A p \in 1 .. Len(c) : d[p + 1] = c[p]
  OBVIOUS
<1> HIDE DEF d
<1>3. \A p \in DOMAIN d : p = 1 \/ (p - 1 \in 1 .. Len(c) /\ d[p] = c[p - 1])
  <2>1. \A p \in DOMAIN d : p = 1 \/ (p - 1 \in 1 .. Len(c) /\ (p - 1) + 1 = p)
    BY <1>1, <1>2
  <2> QED BY <1>2, <2>1
<1>4. Distinct(d)
  <2> SUFFICES ASSUME NEW p \in DOMAIN d, NEW q \in DOMAIN d, d[p].key = d[q].key PROVE p = q
    BY DEF Distinct
  <2>1. p \in Int /\ q \in Int
    BY <1>1, <1>2
  <2>2. p # 1 /\ q # 1 => p - 1 = q - 1
    BY <1>1, <1>3 DEF Distinct
  <2>3. p = 1 <=> q = 1
    BY <1>1, <1>2, <1>3 DEF KeyIn
  <2> QED BY <2>1, <2>2, <2>3
<1>5. Range(d) = Range(c) \cup {n}
  <2>1. 1 \in DOMAIN d /\ \A p \in DOMAIN c : p + 1 \in DOMAIN d
    BY <1>1, <1>2
  <2> QED BY <1>1, <1>2, <1>3, <2>1 DEF Range
<1> QED BY <1>1, <1>4, <1>5 DEF Extends, d

(* A chain from which place r is missing.                                  *)
LEMMA GapShortens ==
  ASSUME NEW c \in Seq(Node), Distinct(c), NEW r \in DOMAIN c, NEW d \in Seq(Node),
         Len(d) = Len(c) - 1,
         \A p \in 1 .. Len(d) : d[p] = IF p < r THEN c[p] ELSE c[p + 1]
  PROVE  Shortens(d, c, c[r])
<1>1. Len(c) \in Nat /\ DOMAIN c = 1 .. Len(c) /\ DOMAIN d = 1 .. (Len(c) - 1) /\ r \in 1 .. Len(c)
  OBVIOUS
<1> DEFINE from(p) == IF p < r THEN p ELSE p + 1
<1>2. \A p \in DOMAIN d : from(p) \in DOMAIN c /\ from(p) # r /\ d[p] = c[from(p)]
  BY <1>1
<1>3. \A p, q \in DOMAIN d : from(p) = from(q) => p = q
  BY <1>1
<1>4. \A q \in DOMAIN c : q # r => \E p \in DOMAIN d : from(p) = q
  <2> SUFFICES ASSUME NEW q \in DOMAIN c, q # r PROVE \E p \in DOMAIN d : from(p) = q
    OBVIOUS
  <2>1. CASE q < r
    BY <1>1, <2>1
  <2>2. CASE ~(q < r)
    <3>1. q - 1 \in DOMAIN d /\ from(q - 1) = q
      BY <1>1, <2>2
    <3> QED BY <3>1
  <2> QED BY <2>1, <2>2
<1> HIDE DEF from
<1>5. Distinct(d)
  BY <1>2, <1>3 DEF Distinct
<1>6. \A q \in DOMAIN c : c[q] = c[r] => q = r
  BY DEF Distinct
<1>7. Range(d) = Range(c) \ {c[r]}
  <2>1. \A x \in Range(d) : x \in Range(c) \ {c[r]}
    BY <1>2, <1>6 DEF Range
  <2>2. \A x \in Range(c) \ {c[r]} : x \in Range(d)
    BY <1>2, <1>4 DEF Range
  <2> QED BY <2>1, <2>2
<1>8. c[r] \in Range(c)
  BY DEF Range
<1> QED BY <1>5, <1>7, <1>8 DEF Shortens

(* ht_delete takes the node that _find_node returned out of its chain.     *)
LEMMA RemoveAtShortens ==
  ASSUME NEW c \in Seq(Node), Distinct(c), NEW r \in DOMAIN c
  PROVE  Shortens(RemoveAt(c, r), c, c[r])
<1> DEFINE a == SubSeq(c, 1, r - 1)
           b == SubSeq(c, r + 1, Len(c))
<1>1. r \in 1 .. Len(c) /\ Len(c) \in Nat
  OBVIOUS
<1>2. /\ a \in Seq(Node) /\ Len(a) = r - 1 /\ \A p \in 1 .. (r - 1) : a[p] = c[p]
  BY <1>1
<1>3. /\ b \in Seq(Node) /\ Len(b) = Len(c) - r /\ \A p \in 1 .. (Len(c) - r) : b[p] = c[r + p]
  BY <1>1
<1>4. RemoveAt(c, r) = a \o b
  BY DEF RemoveAt
<1> HIDE DEF a, b
<1> DEFINE d == RemoveAt(c, r)
<1>5. /\ d \in Seq(Node) /\ Len(d) = Len(c) - 1
      /\ \A p \in 1 .. (Len(c) - 1) : d[p] = IF p <= r - 1 THEN a[p] ELSE b[p - (r - 1)]
  <2>1. /\ a \o b \in Seq(Node) /\ Len(a \o b) = Len(a) + Len(b)
        /\ \A p \in 1 .. Len(a) + Len(b) :
              (a \o b)[p] = IF p <= Len(a) THEN a[p] ELSE b[p - Len(a)]
    BY <1>2, <1>3, ConcatProperties, Zenon
  <2>2. Len(a) + Len(b) = Len(c) - 1
    BY <1>1, <1>2, <1>3
  <2> QED BY <1>2, <1>4, <2>1, <2>2, Zenon
<1> HIDE DEF d
<1>6. ASSUME NEW p \in 1 .. (Len(c) - 1)
      PROVE  d[p] = IF p < r THEN c[p] ELSE c[p + 1]
  <2>1. CASE p < r
    BY <1>1, <1>2, <1>5, <2>1
  <2>2. CASE ~(p < r)
    <3>1. p - (r - 1) \in 1 .. (Len(c) - r) /\ r + (p - (r - 1)) = p + 1 /\ ~(p <= r - 1)
      BY <1>1, <2>2
    <3> QED BY <1>3, <1>5, <2>2, <3>1
  <2> QED BY <2>1, <2>2
<1>7. Shortens(d, c, c[r])
  BY <1>5, <1>6, GapShortens
<1> QED BY <1>7 DEF d

(* ht_purge and the rehash take the first node.                            *)
LEMMA TailShortens ==
  ASSUME NEW c \in Seq(Node), Distinct(c), c # << >>
  PROVE  Shortens(Tail(c), c, Head(c))
<1>1. Tail(c) \in Seq(Node) /\ Len(Tail(c)) = Len(c) - 1 /\ 1 \in DOMAIN c /\ Head(c) = c[1]
  OBVIOUS
<1>2. \A p \in 1 .. Len(Tail(c)) : Tail(c)[p] = IF p < 1 THEN c[p] ELSE c[p + 1]
  OBVIOUS
<1> QED BY <1>1, <1>2, GapShortens

(* ht_set of a key that is there gives its node the value.                 *)
LEMMA OverwriteKeeps ==
  ASSUME NEW c \in Seq(Node), Distinct(c), NEW r \in DOMAIN c, NEW v \in Value
  PROVE  LET n == [key |-> c[r].key, value |-> v]
             d == [c EXCEPT ![r].value = v]
         IN  /\ d \in Seq(Node) /\ Distinct(d) /\ Len(d) = Len(c)
             /\ Range(d) = (Range(c) \ {c[r]}) \cup {n}
<1> DEFINE n == [key |-> c[r].key, value |-> v]
           d == [c EXCEPT ![r].value = v]
<1>1. c[r] \in Node /\ n \in Node /\ [c[r] EXCEPT !.value = v] = n /\ n.key = c[r].key
  <2>1. PICK k \in Key, w \in Value : c[r] = [key |-> k, value |-> w]
    <3>1. c[r] \in Node
      OBVIOUS
    <3> QED BY <3>1, NodeForm
  <2> DEFINE m == [key |-> k, value |-> w]
  <2>2. m \in Node /\ [key |-> k, value |-> v] \in Node /\ m.key = k
        /\ [m EXCEPT !.value = v] = [key |-> k, value |-> v]
    BY DEF Node
  <2> QED BY <2>1, <2>2
<1>2. d = [c EXCEPT ![r] = n]
  BY <1>1
<1>3. d \in Seq(Node) /\ Len(d) = Len(c) /\ DOMAIN d = DOMAIN c
  BY <1>1, <1>2
<1>4. \A p \in DOMAIN c : d[p] = IF p = r THEN n ELSE c[p]
  BY <1>2
<1> HIDE DEF n, d
<1>5. Distinct(d)
  BY <1>1, <1>3, <1>4 DEF Distinct
<1>6. \A q \in DOMAIN c : c[q] = c[r] => q = r
  BY DEF Distinct
<1>7. Range(d) = (Range(c) \ {c[r]}) \cup {n}
  <2>1. \A x \in Range(d) : x \in (Range(c) \ {c[r]}) \cup {n}
    BY <1>3, <1>4, <1>6 DEF Range
  <2>2. \A x \in (Range(c) \ {c[r]}) \cup {n} : x \in Range(d)
    BY <1>3, <1>4, <1>6 DEF Range
  <2> QED BY <2>1, <2>2
<1> QED BY <1>3, <1>5, <1>7 DEF n, d

----------------------------------------------------------------------------
(* What the calls do to an array of chains.                                *)

(* Every node hangs in the chain of its key, and no key twice.             *)
Table(f, b) ==
    /\ f \in [Slots(b) -> Seq(Node)]
    /\ \A s \in Slots(b) : Distinct(f[s])
    /\ \A s \in Slots(b) : \A n \in Range(f[s]) : s = Slot(n.key, b)
    /\ IsFiniteSet(Places(f))

(* The chains are numbered from 0 on; a loop that has left them is past    *)
(* them all.                                                               *)
LEMMA Slotted ==
  ASSUME NEW b \in Index
  PROVE  /\ Prime(b) \in Nat \ {0} /\ Slots(b) \subseteq Nat
         /\ \A x \in Nat : x \notin Slots(b) => \A s \in Slots(b) : s < x
<1>1. Prime(b) \in Nat \ {0}
  BY TableAssumption DEF Prime, Index
<1> QED BY <1>1 DEF Slots

(* A key has a chain, whatever the size of the array.                      *)
LEMMA SlotOfKey ==
  ASSUME NEW k \in Key, NEW b \in Index
  PROVE  Slot(k, b) \in Slots(b)
<1>1. Prime(b) \in Nat \ {0}
  BY Slotted
<1>2. Hash(k) \in Nat
  BY TableAssumption
<1>3. \A h \in Nat, m \in Nat \ {0} : h % m \in 0 .. (m - 1)
  OBVIOUS
<1>4. Hash(k) % Prime(b) \in 0 .. (Prime(b) - 1)
  BY <1>1, <1>2, <1>3
<1> QED BY <1>4 DEF Slot, Slots

(* A node of an array is in one of its chains.                             *)
LEMMA NodesOfIn ==
  ASSUME NEW f, NEW n
  PROVE  n \in NodesOf(f) <=> \E s \in DOMAIN f : n \in Range(f[s])
BY DEF NodesOf

(* A place is a slot and a position in its chain.                          *)
LEMMA PlacesIn ==
  ASSUME NEW f, NEW x
  PROVE  x \in Places(f) <=> \E s \in DOMAIN f : \E p \in DOMAIN f[s] : x = <<s, p>>
BY DEF Places

(* A key has one node.                                                     *)
LEMMA OneNode ==
  ASSUME NEW f, NEW b, Table(f, b), NEW m \in NodesOf(f), NEW n \in NodesOf(f), m.key = n.key
  PROVE  m = n
<1>1. PICK s \in Slots(b) : m \in Range(f[s])
  BY NodesOfIn DEF Table
<1>2. PICK t \in Slots(b) : n \in Range(f[t])
  BY NodesOfIn DEF Table
<1>3. s = t /\ Distinct(f[s])
  BY <1>1, <1>2 DEF Table
<1> QED BY <1>1, <1>2, <1>3 DEF Distinct, Range

(* What an array holds are nodes.                                          *)
LEMMA NodesAreNodes ==
  ASSUME NEW f, NEW b, Table(f, b), NEW n \in NodesOf(f)
  PROVE  n \in Node
<1>1. PICK s \in Slots(b) : n \in Range(f[s])
  BY NodesOfIn DEF Table
<1> QED BY <1>1 DEF Range, Table

(* The calls replace one chain.                                            *)
LEMMA ReplaceChain ==
  ASSUME NEW b \in Index, NEW f, Table(f, b), NEW s \in Slots(b),
         NEW d \in Seq(Node), Distinct(d), \A n \in Range(d) : s = Slot(n.key, b)
  PROVE  LET g == [f EXCEPT ![s] = d]
         IN  /\ g \in [Slots(b) -> Seq(Node)]
             /\ \A t \in Slots(b) : Distinct(g[t])
             /\ \A t \in Slots(b) : \A n \in Range(g[t]) : t = Slot(n.key, b)
             /\ NodesOf(g) = (NodesOf(f) \ Range(f[s])) \cup Range(d)
<1> DEFINE g == [f EXCEPT ![s] = d]
<1>1. /\ g \in [Slots(b) -> Seq(Node)] /\ DOMAIN f = Slots(b) /\ DOMAIN g = Slots(b)
      /\ g[s] = d /\ \A t \in Slots(b) : t # s => g[t] = f[t]
  BY DEF Table
<1> HIDE DEF g
<1>2. \A t \in Slots(b) : Distinct(g[t])
  BY <1>1 DEF Table
<1>3. \A t \in Slots(b) : \A n \in Range(g[t]) : t = Slot(n.key, b)
  BY <1>1 DEF Table
<1>4. ASSUME NEW n PROVE n \in NodesOf(g) <=> n \in (NodesOf(f) \ Range(f[s])) \cup Range(d)
  <2>1. n \in NodesOf(f) <=> \E t \in Slots(b) : n \in Range(f[t])
    BY <1>1, NodesOfIn
  <2>2. n \in NodesOf(g) <=> \E t \in Slots(b) : n \in Range(g[t])
    BY <1>1, NodesOfIn
  <2>3. \A t \in Slots(b) : n \in Range(f[t]) /\ n \in Range(f[s]) => t = s
    BY DEF Table
  <2> QED BY <1>1, <2>1, <2>2, <2>3
<1>5. NodesOf(g) = (NodesOf(f) \ Range(f[s])) \cup Range(d)
  BY <1>4
<1> QED BY <1>1, <1>2, <1>3, <1>5 DEF g

(* Array g has one node more than f, in chain s.                           *)
LongerAt(f, g, S, s) ==
    /\ f \in [S -> Seq(Node)] /\ g \in [S -> Seq(Node)] /\ s \in S
    /\ \A t \in S : t # s => g[t] = f[t]
    /\ Len(g[s]) = Len(f[s]) + 1

OnePlaceMore(f, g, x) ==
    Places(g) = Places(f) \cup {x} /\ Places(f) = Places(g) \ {x} /\ x \notin Places(f)

(* A chain of another length: places come or go at its end.                *)
LEMMA PlacesGrow ==
  ASSUME NEW S, NEW f, NEW g, NEW s, LongerAt(f, g, S, s)
  PROVE  OnePlaceMore(f, g, <<s, Len(g[s])>>)
<1>1. /\ DOMAIN f = S /\ DOMAIN g = S /\ Len(f[s]) \in Nat
      /\ DOMAIN f[s] = 1 .. Len(f[s]) /\ DOMAIN g[s] = 1 .. (Len(f[s]) + 1)
      /\ s \in S /\ (\A t \in S : t # s => g[t] = f[t]) /\ Len(g[s]) = Len(f[s]) + 1
  BY DEF LongerAt
<1>2. /\ DOMAIN g[s] = DOMAIN f[s] \cup {Len(g[s])}
      /\ Len(g[s]) \notin DOMAIN f[s]
  BY <1>1
<1>3. \A x : x \in Places(f) <=> \E t \in S : \E p \in DOMAIN f[t] : x = <<t, p>>
  BY <1>1, PlacesIn
<1>4. \A x : x \in Places(g) <=> \E t \in S : \E p \in DOMAIN g[t] : x = <<t, p>>
  BY <1>1, PlacesIn
<1>5. <<s, Len(g[s])>> \notin Places(f)
  BY <1>2, <1>3
<1>6. \A x : x \in Places(g) <=> x \in Places(f) \/ x = <<s, Len(g[s])>>
  <2> TAKE x
  <2>1. ASSUME x \in Places(g) PROVE x \in Places(f) \/ x = <<s, Len(g[s])>>
    <3>1. PICK t \in S : \E p \in DOMAIN g[t] : x = <<t, p>>
      BY <1>4, <2>1
    <3> QED BY <1>1, <1>2, <1>3, <3>1
  <2>2. ASSUME x \in Places(f) PROVE x \in Places(g)
    <3>1. PICK t \in S : \E p \in DOMAIN f[t] : x = <<t, p>>
      BY <1>3, <2>2
    <3> QED BY <1>1, <1>2, <1>4, <3>1
  <2>3. <<s, Len(g[s])>> \in Places(g)
    BY <1>1, <1>2, <1>4
  <2> QED BY <2>1, <2>2, <2>3
<1> QED BY <1>5, <1>6 DEF OnePlaceMore

(* Array g is array f with one node more, one less, or another in place of *)
(* n.                                                                      *)
Added(g, f, b, n) ==
    /\ Table(g, b) /\ NodesOf(g) = NodesOf(f) \cup {n}
    /\ Cardinality(Places(g)) = Cardinality(Places(f)) + 1

Dropped(g, f, b, n) ==
    /\ Table(g, b) /\ n \in NodesOf(f) /\ NodesOf(g) = NodesOf(f) \ {n}
    /\ Cardinality(Places(g)) = Cardinality(Places(f)) - 1
    /\ Cardinality(Places(g)) \in Nat

Changed(g, f, b, n, m) ==
    /\ Table(g, b) /\ n \in NodesOf(f) /\ NodesOf(g) = (NodesOf(f) \ {n}) \cup {m}
    /\ Places(g) = Places(f)

(* A new node.                                                             *)
LEMMA TableExtends ==
  ASSUME NEW b \in Index, NEW f, Table(f, b), NEW n \in Node, NEW s, s = Slot(n.key, b),
         NEW d, Extends(d, f[s], n)
  PROVE  Added([f EXCEPT ![s] = d], f, b, n)
<1> DEFINE g == [f EXCEPT ![s] = d]
<1>1. s \in Slots(b)
  BY SlotOfKey, NodeForm
<1>2. d \in Seq(Node) /\ Distinct(d) /\ Len(d) = Len(f[s]) + 1 /\ Range(d) = Range(f[s]) \cup {n}
  BY DEF Extends
<1>3. \A m \in Range(d) : s = Slot(m.key, b)
  BY <1>1, <1>2 DEF Table
<1>4. /\ g \in [Slots(b) -> Seq(Node)]
      /\ \A t \in Slots(b) : Distinct(g[t])
      /\ \A t \in Slots(b) : \A m \in Range(g[t]) : t = Slot(m.key, b)
      /\ NodesOf(g) = (NodesOf(f) \ Range(f[s])) \cup Range(d)
  BY <1>1, <1>2, <1>3, ReplaceChain
<1>5. f \in [Slots(b) -> Seq(Node)] /\ g[s] = d /\ \A t \in Slots(b) : t # s => g[t] = f[t]
  BY <1>1 DEF Table
<1> HIDE DEF g
<1>6. /\ Places(g) = Places(f) \cup {<<s, Len(g[s])>>} /\ <<s, Len(g[s])>> \notin Places(f)
  <2>1. LongerAt(f, g, Slots(b), s)
    BY <1>1, <1>2, <1>4, <1>5 DEF LongerAt
  <2>2. OnePlaceMore(f, g, <<s, Len(g[s])>>)
    BY <2>1, PlacesGrow, Zenon
  <2> QED BY <2>2 DEF OnePlaceMore
<1>7. IsFiniteSet(Places(g)) /\ Cardinality(Places(g)) = Cardinality(Places(f)) + 1
  <2>1. IsFiniteSet(Places(f))
    BY DEF Table
  <2> DEFINE x == <<s, Len(g[s])>>
  <2> HIDE DEF x
  <2>2. IsFiniteSet(Places(f) \cup {x})
        /\ Cardinality(Places(f) \cup {x}) =
             IF x \in Places(f) THEN Cardinality(Places(f)) ELSE Cardinality(Places(f)) + 1
    BY <2>1, FS_AddElement, Zenon
  <2> QED BY <1>6, <2>2 DEF x
<1>8. Range(f[s]) \subseteq NodesOf(f)
  BY <1>1, <1>5, NodesOfIn
<1>9. NodesOf(g) = NodesOf(f) \cup {n}
  BY <1>2, <1>4, <1>8
<1> QED BY <1>4, <1>7, <1>9 DEF Table, Added, g

(* A node less.                                                            *)
LEMMA TableShortens ==
  ASSUME NEW b \in Index, NEW f, Table(f, b), NEW s \in Slots(b), NEW n,
         NEW d, Shortens(d, f[s], n)
  PROVE  Dropped([f EXCEPT ![s] = d], f, b, n)
<1> DEFINE g == [f EXCEPT ![s] = d]
<1>1. /\ d \in Seq(Node) /\ Distinct(d) /\ n \in Range(f[s]) /\ Len(d) = Len(f[s]) - 1
      /\ Range(d) = Range(f[s]) \ {n}
  BY DEF Shortens
<1>2. \A m \in Range(d) : s = Slot(m.key, b)
  BY <1>1 DEF Table
<1>3. /\ g \in [Slots(b) -> Seq(Node)]
      /\ \A t \in Slots(b) : Distinct(g[t])
      /\ \A t \in Slots(b) : \A m \in Range(g[t]) : t = Slot(m.key, b)
      /\ NodesOf(g) = (NodesOf(f) \ Range(f[s])) \cup Range(d)
  BY <1>1, <1>2, ReplaceChain
<1>4. f \in [Slots(b) -> Seq(Node)] /\ g[s] = d /\ \A t \in Slots(b) : t # s => g[t] = f[t]
  BY DEF Table
<1> HIDE DEF g
<1>5. Len(f[s]) = Len(g[s]) + 1
  <2>1. Len(f[s]) \in Nat
    BY <1>4
  <2> QED BY <1>1, <1>4, <2>1
<1>6. /\ Places(g) = Places(f) \ {<<s, Len(f[s])>>} /\ Places(f) = Places(g) \cup {<<s, Len(f[s])>>}
  <2>1. LongerAt(g, f, Slots(b), s)
    BY <1>3, <1>4, <1>5 DEF LongerAt
  <2>2. OnePlaceMore(g, f, <<s, Len(f[s])>>)
    BY <2>1, PlacesGrow, Zenon
  <2> QED BY <2>2 DEF OnePlaceMore
<1>7. IsFiniteSet(Places(g)) /\ Cardinality(Places(g)) = Cardinality(Places(f)) - 1
  BY <1>6, FS_RemoveElement, ZenonT(30) DEF Table
<1>8. Cardinality(Places(g)) \in Nat
  BY <1>7, FS_CardinalityType
<1>9. Range(f[s]) \subseteq NodesOf(f)
  BY <1>4, NodesOfIn
<1>10. NodesOf(g) = NodesOf(f) \ {n} /\ n \in NodesOf(f)
  BY <1>1, <1>3, <1>9
<1> QED BY <1>3, <1>7, <1>8, <1>10 DEF Table, Dropped, g

(* Another value for the node at place r of its chain.                     *)
LEMMA TableOverwrites ==
  ASSUME NEW b \in Index, NEW f, Table(f, b), NEW s \in Slots(b), NEW r \in DOMAIN f[s],
         NEW v \in Value
  PROVE  Changed([f EXCEPT ![s][r].value = v], f, b, f[s][r], [key |-> f[s][r].key, value |-> v])
<1> DEFINE c == f[s]
           d == [c EXCEPT ![r].value = v]
           g == [f EXCEPT ![s] = d]
           n == f[s][r]
           m == [key |-> n.key, value |-> v]
<1>1. f \in [Slots(b) -> Seq(Node)] /\ c \in Seq(Node) /\ Distinct(c)
  BY DEF Table
<1>2. /\ d \in Seq(Node) /\ Distinct(d) /\ Len(d) = Len(c)
      /\ Range(d) = (Range(c) \ {n}) \cup {m}
  BY <1>1, OverwriteKeeps
<1>3. n \in Range(c) /\ m.key = n.key
  BY DEF Range
<1>4. \A x \in Range(d) : s = Slot(x.key, b)
  BY <1>2, <1>3 DEF Table
<1> HIDE DEF d
<1>5. /\ g \in [Slots(b) -> Seq(Node)]
      /\ \A t \in Slots(b) : Distinct(g[t])
      /\ \A t \in Slots(b) : \A x \in Range(g[t]) : t = Slot(x.key, b)
      /\ NodesOf(g) = (NodesOf(f) \ Range(f[s])) \cup Range(d)
  BY <1>2, <1>4, ReplaceChain
<1>6. g[s] = d /\ \A t \in Slots(b) : t # s => g[t] = f[t]
  BY <1>1
<1>7. g = [f EXCEPT ![s][r].value = v]
  BY DEF d
<1>8. DOMAIN d = DOMAIN c
  BY <1>1, <1>2
<1> HIDE DEF g, m
<1>9. DOMAIN g = DOMAIN f /\ \A t \in DOMAIN f : DOMAIN g[t] = DOMAIN f[t]
  BY <1>1, <1>5, <1>6, <1>8
<1>10. Places(g) = Places(f)
  <2>1. \A x : x \in Places(g) <=> x \in Places(f)
    BY <1>9, PlacesIn
  <2> QED BY <2>1
<1>11. Range(c) \subseteq NodesOf(f)
  BY <1>1, NodesOfIn
<1>12. n \in NodesOf(f) /\ NodesOf(g) = (NodesOf(f) \ {n}) \cup {m}
  BY <1>2, <1>3, <1>5, <1>11
<1>13. Table(g, b)
  BY <1>5, <1>10 DEF Table
<1> QED BY <1>7, <1>10, <1>12, <1>13 DEF Changed, m

(* An array of empty chains.                                               *)
LEMMA EmptyTable ==
  ASSUME NEW b \in Index, NEW f, f \in [Slots(b) -> Seq(Node)], \A s \in Slots(b) : f[s] = << >>
  PROVE  Table(f, b) /\ NodesOf(f) = {} /\ Places(f) = {} /\ Cardinality(Places(f)) = 0
<1>1. \A s \in Slots(b) : DOMAIN f[s] = {} /\ Range(f[s]) = {} /\ Distinct(f[s])
  BY DEF Range, Distinct
<1>2. Places(f) = {} /\ NodesOf(f) = {}
  <2>1. \A x : x \notin Places(f)
    BY <1>1, PlacesIn
  <2>2. \A x : x \notin NodesOf(f)
    BY <1>1, NodesOfIn
  <2> QED BY <2>1, <2>2
<1> QED BY <1>1, <1>2, FS_EmptySet DEF Table

----------------------------------------------------------------------------
(* The inductive invariant.                                                *)

Scalars ==
    /\ buckets \in Index /\ new_bucks \in Index /\ n_nodes \in Nat
    /\ op \in {"idle", "purge", "free", "foreach"}
    /\ phase \in {"none", "adjust", "rehash"}
    /\ i \in Nat /\ j \in Nat /\ pos \in Nat \ {0} /\ visited \in Seq(Key)

(* A loop over the table and a resize exclude each other.                  *)
Busy ==
    /\ op # "idle" => phase = "none"
    /\ op = "idle" => i = 0 /\ pos = 1 /\ visited = << >>

(* Both arrays are in order, no key is in both, and the new one is in use  *)
(* in a rehash only.                                                       *)
Arrays == Table(nodes, buckets) /\ Table(new_nodes, new_bucks)

Apart ==
    /\ \A m \in NodesOf(nodes), n \in NodesOf(new_nodes) : m.key # n.key
    /\ phase # "rehash" => \A s \in Slots(new_bucks) : new_nodes[s] = << >>

(* The chains that the rehash, ht_purge or ht_free has left are empty.     *)
Swept ==
    /\ phase = "rehash" => \A s \in Slots(buckets) : s < j => nodes[s] = << >>
    /\ op \in {"purge", "free"} => \A s \in Slots(buckets) : s < i => nodes[s] = << >>

Counted == NodeCount <= n_nodes

Shape == Scalars /\ Busy /\ Arrays /\ Apart /\ Swept /\ Counted

(* One chain holds all there is of a key.                                  *)
LEMMA HasNode ==
  ASSUME Shape, NEW k \in Key
  PROVE  /\ Slot(k, buckets) \in Slots(buckets)
         /\ Has(k) <=> \E n \in NodesOf(nodes) : n.key = k
         /\ Has(k) => /\ FindNode(k) \in DOMAIN nodes[Slot(k, buckets)]
                      /\ nodes[Slot(k, buckets)][FindNode(k)].key = k
<1> DEFINE s == Slot(k, buckets)
<1>1. /\ s \in Slots(buckets) /\ DOMAIN nodes = Slots(buckets)
      /\ \A t \in Slots(buckets) : \A n \in Range(nodes[t]) : t = Slot(n.key, buckets)
  BY SlotOfKey DEF Shape, Scalars, Arrays, Table
<1>2. ASSUME NEW n \in NodesOf(nodes), n.key = k PROVE Has(k)
  <2>1. PICK t \in Slots(buckets) : n \in Range(nodes[t])
    BY <1>1, NodesOfIn
  <2>2. t = s
    BY <1>1, <1>2, <2>1
  <2> QED BY <1>2, <2>1, <2>2 DEF Has, KeyIn, Range
<1>3. ASSUME Has(k) PROVE /\ \E n \in NodesOf(nodes) : n.key = k
                          /\ FindNode(k) \in DOMAIN nodes[s] /\ nodes[s][FindNode(k)].key = k
  <2>1. \E p \in DOMAIN nodes[s] : nodes[s][p].key = k
    BY <1>3 DEF Has, KeyIn
  <2>2. FindNode(k) \in DOMAIN nodes[s] /\ nodes[s][FindNode(k)].key = k
    BY <2>1 DEF FindNode
  <2>3. nodes[s][FindNode(k)] \in NodesOf(nodes)
    BY <1>1, <2>2, NodesOfIn DEF Range
  <2> QED BY <2>2, <2>3
<1> QED BY <1>1, <1>2, <1>3

(* What each call that changes the chains makes of them.                   *)
Gains(n)      == Added(nodes', nodes, buckets, n)
Loses(n)      == Dropped(nodes', nodes, buckets, n)
Exchanges(n, m) == Changed(nodes', nodes, buckets, n, m)
NewGains(n)   == Added(new_nodes', new_nodes, new_bucks, n)

(* ht_set of a new key appends a node to its chain.                        *)
LEMMA SetAdds ==
  ASSUME Shape, NEW k \in Key, NEW v \in Value, ~Has(k),
         nodes' = [nodes EXCEPT ![Slot(k, buckets)] = Append(@, [key |-> k, value |-> v])]
  PROVE  Gains([key |-> k, value |-> v])
<1> DEFINE s == Slot(k, buckets)
           n == [key |-> k, value |-> v]
           d == Append(nodes[s], n)
<1>1. s \in Slots(buckets) /\ n \in Node /\ n.key = k
  BY HasNode DEF Node
<1>2. Table(nodes, buckets) /\ buckets \in Index /\ nodes[s] \in Seq(Node) /\ Distinct(nodes[s])
  BY <1>1 DEF Shape, Scalars, Arrays, Table
<1>3. Extends(d, nodes[s], n)
  BY <1>1, <1>2, AppendExtends DEF Has
<1>4. nodes' = [nodes EXCEPT ![s] = d]
  OBVIOUS
<1>5. s = Slot(n.key, buckets)
  BY <1>1
<1> HIDE DEF s, n, d
<1>6. Added([nodes EXCEPT ![s] = d], nodes, buckets, n)
  BY <1>1, <1>2, <1>3, <1>5, TableExtends, Zenon
<1>7. Gains(n)
  BY <1>4, <1>6 DEF Gains
<1> QED BY <1>7 DEF n

(* ht_set of a key that is there exchanges its node for one with the new   *)
(* value.                                                                  *)
LEMMA SetOverwrites ==
  ASSUME Shape, NEW k \in Key, NEW v \in Value, Has(k),
         nodes' = [nodes EXCEPT ![Slot(k, buckets)][FindNode(k)].value = v]
  PROVE  LET n == nodes[Slot(k, buckets)][FindNode(k)]
         IN  Exchanges(n, [key |-> k, value |-> v]) /\ n.key = k
<1> DEFINE s == Slot(k, buckets)
           r == FindNode(k)
<1>1. s \in Slots(buckets) /\ r \in DOMAIN nodes[s] /\ nodes[s][r].key = k
  BY HasNode
<1>2. Table(nodes, buckets) /\ buckets \in Index
  BY DEF Shape, Scalars, Arrays
<1>3. nodes' = [nodes EXCEPT ![s][r].value = v]
  OBVIOUS
<1> HIDE DEF s, r
<1>4. Changed([nodes EXCEPT ![s][r].value = v], nodes, buckets, nodes[s][r],
              [key |-> nodes[s][r].key, value |-> v])
  BY <1>1, <1>2, TableOverwrites, Zenon
<1>5. Exchanges(nodes[s][r], [key |-> k, value |-> v])
  BY <1>1, <1>3, <1>4 DEF Exchanges
<1> QED BY <1>1, <1>5 DEF s, r

(* ht_delete and ht_take drop the one node of the key.                     *)
LEMMA DeleteDrops ==
  ASSUME Shape, NEW k \in Key, Has(k),
         nodes' = [nodes EXCEPT ![Slot(k, buckets)] = RemoveAt(@, FindNode(k))]
  PROVE  LET n == nodes[Slot(k, buckets)][FindNode(k)]
         IN  Loses(n) /\ n.key = k
<1> DEFINE s == Slot(k, buckets)
           r == FindNode(k)
           n == nodes[s][r]
           d == RemoveAt(nodes[s], r)
<1>1. s \in Slots(buckets) /\ r \in DOMAIN nodes[s] /\ n.key = k
  BY HasNode
<1>2. Table(nodes, buckets) /\ buckets \in Index /\ nodes[s] \in Seq(Node) /\ Distinct(nodes[s])
  BY <1>1 DEF Shape, Scalars, Arrays, Table
<1>3. Shortens(d, nodes[s], n)
  BY <1>1, <1>2, RemoveAtShortens
<1>4. nodes' = [nodes EXCEPT ![s] = d]
  OBVIOUS
<1> HIDE DEF s, n, d, r
<1>5. Dropped([nodes EXCEPT ![s] = d], nodes, buckets, n)
  BY <1>1, <1>2, <1>3, TableShortens, Zenon
<1>6. Loses(n)
  BY <1>4, <1>5 DEF Loses
<1> QED BY <1>1, <1>6 DEF n, s, r

(* _rehash and ht_free take the first node of a chain.                     *)
LEMMA HeadDrops ==
  ASSUME Shape, NEW s \in Slots(buckets), nodes[s] # << >>,
         nodes' = [nodes EXCEPT ![s] = Tail(@)]
  PROVE  Loses(Head(nodes[s])) /\ Head(nodes[s]) \in Node
<1> DEFINE n == Head(nodes[s])
           d == Tail(nodes[s])
<1>1. Table(nodes, buckets) /\ buckets \in Index /\ nodes[s] \in Seq(Node) /\ Distinct(nodes[s])
  BY DEF Shape, Scalars, Arrays, Table
<1>2. Shortens(d, nodes[s], n) /\ n \in Node
  BY <1>1, TailShortens
<1>3. nodes' = [nodes EXCEPT ![s] = d]
  OBVIOUS
<1> HIDE DEF n, d
<1>4. Dropped([nodes EXCEPT ![s] = d], nodes, buckets, n)
  BY <1>1, <1>2, TableShortens, Zenon
<1>5. Loses(n)
  BY <1>3, <1>4 DEF Loses
<1> QED BY <1>2, <1>5 DEF n

(* _rehash puts the node at the head of its chain in the new array.        *)
LEMMA RehashAdds ==
  ASSUME Shape, NEW n \in NodesOf(nodes), n \in Node,
         new_nodes' = [new_nodes EXCEPT ![Slot(n.key, new_bucks)] = <<n>> \o @]
  PROVE  NewGains(n)
<1> DEFINE s == Slot(n.key, new_bucks)
           d == <<n>> \o new_nodes[s]
<1>1. s \in Slots(new_bucks) /\ n.key \in Key
  BY SlotOfKey, NodeForm DEF Shape, Scalars
<1>2. /\ Table(new_nodes, new_bucks) /\ new_bucks \in Index /\ DOMAIN new_nodes = Slots(new_bucks)
      /\ new_nodes[s] \in Seq(Node) /\ Distinct(new_nodes[s])
  BY <1>1 DEF Shape, Scalars, Arrays, Table
<1>3. ~KeyIn(new_nodes[s], n.key)
  <2> SUFFICES ASSUME NEW p \in DOMAIN new_nodes[s], new_nodes[s][p].key = n.key PROVE FALSE
    BY DEF KeyIn
  <2>1. new_nodes[s][p] \in NodesOf(new_nodes)
    BY <1>1, <1>2, NodesOfIn DEF Range
  <2> QED BY <2>1 DEF Shape, Apart
<1>4. Extends(d, new_nodes[s], n)
  BY <1>2, <1>3, PrependExtends
<1>5. new_nodes' = [new_nodes EXCEPT ![s] = d] /\ s = Slot(n.key, new_bucks)
  OBVIOUS
<1> HIDE DEF s, d
<1>6. Added([new_nodes EXCEPT ![s] = d], new_nodes, new_bucks, n)
  BY <1>2, <1>4, <1>5, TableExtends, Zenon
<1> QED BY <1>5, <1>6 DEF NewGains

----------------------------------------------------------------------------
(* Every step keeps the shape of the table.                                *)

(* The numbers of nodes are numbers, and outside a resize the new array    *)
(* has none.                                                               *)
LEMMA Counts ==
  ASSUME Shape
  PROVE  /\ Cardinality(Places(nodes)) \in Nat /\ Cardinality(Places(new_nodes)) \in Nat
         /\ phase # "rehash" => NodesOf(new_nodes) = {} /\ Cardinality(Places(new_nodes)) = 0
<1>1. IsFiniteSet(Places(nodes)) /\ IsFiniteSet(Places(new_nodes))
  BY DEF Shape, Arrays, Table
<1>2. ASSUME phase # "rehash"
      PROVE  NodesOf(new_nodes) = {} /\ Cardinality(Places(new_nodes)) = 0
  <2>1. /\ new_bucks \in Index /\ new_nodes \in [Slots(new_bucks) -> Seq(Node)]
        /\ \A s \in Slots(new_bucks) : new_nodes[s] = << >>
    BY <1>2 DEF Shape, Scalars, Arrays, Apart, Table
  <2> QED BY <2>1, EmptyTable, Zenon
<1> QED BY <1>1, <1>2, FS_CardinalityType

(* The empty array.                                                        *)
LEMMA Empties ==
  ASSUME NEW b \in Index
  PROVE  /\ Table(Empty(b), b) /\ NodesOf(Empty(b)) = {} /\ Cardinality(Places(Empty(b))) = 0
         /\ \A s \in Slots(b) : Empty(b)[s] = << >>
<1>1. Empty(b) \in [Slots(b) -> Seq(Node)] /\ \A s \in Slots(b) : Empty(b)[s] = << >>
  BY DEF Empty
<1> QED BY <1>1, EmptyTable, Zenon

(* A table starts with the first of the array sizes.                       *)
LEMMA FirstIndex == 0 \in Index
  BY TableAssumption DEF Index

(* ht_new makes a table of that shape.                                     *)
LEMMA ShapeInit == Init => Shape
<1> SUFFICES ASSUME Init PROVE Shape
  OBVIOUS
<1>1. /\ buckets = 0 /\ nodes = Empty(0) /\ n_nodes = 0 /\ op = "idle" /\ phase = "none"
      /\ new_bucks = 0 /\ new_nodes = Empty(0) /\ j = 0 /\ i = 0 /\ pos = 1 /\ visited = << >>
  BY DEF Init
<1>2. /\ Table(Empty(0), 0) /\ NodesOf(Empty(0)) = {} /\ Cardinality(Places(Empty(0))) = 0
      /\ \A s \in Slots(0) : Empty(0)[s] = << >>
  BY FirstIndex, Empties
<1>3. Scalars
  BY <1>1, FirstIndex DEF Scalars
<1>4. Arrays /\ Apart
  BY <1>1, <1>2 DEF Arrays, Apart
<1>5. Busy /\ Swept
  BY <1>1 DEF Busy, Swept
<1>6. Counted
  BY <1>1, <1>2 DEF Counted, NodeCount
<1> QED BY <1>3, <1>4, <1>5, <1>6 DEF Shape

(* ht_set.                                                                 *)
LEMMA ShapeSet ==
  ASSUME Shape, NEW k \in Key, NEW v \in Value, Set(k, v)
  PROVE  Shape'
<1> DEFINE m == [key |-> k, value |-> v]
<1>1. /\ op = "idle" /\ phase = "none" /\ n_nodes' = n_nodes + 1 /\ phase' \in {"none", "adjust"}
      /\ buckets' = buckets /\ op' = op /\ new_bucks' = new_bucks /\ new_nodes' = new_nodes
      /\ j' = j /\ i' = i /\ pos' = pos /\ visited' = visited
  BY DEF Set, Quiet, rehash
<1>2. /\ NodesOf(new_nodes) = {} /\ Cardinality(Places(new_nodes)) = 0
      /\ Cardinality(Places(nodes)) \in Nat
  BY <1>1, Counts
<1>3. Table(nodes', buckets) /\ Cardinality(Places(nodes')) <= Cardinality(Places(nodes)) + 1
  <2>1. CASE Has(k)
    <3>1. nodes' = [nodes EXCEPT ![Slot(k, buckets)][FindNode(k)].value = v]
      BY <2>1 DEF Set
    <3>2. Exchanges(nodes[Slot(k, buckets)][FindNode(k)], m)
      BY <2>1, <3>1, SetOverwrites
    <3>3. Table(nodes', buckets) /\ Places(nodes') = Places(nodes)
      BY <3>2 DEF Exchanges, Changed
    <3>4. Cardinality(Places(nodes')) = Cardinality(Places(nodes))
      BY <3>3
    <3> QED BY <1>2, <3>3, <3>4
  <2>2. CASE ~Has(k)
    <3>1. nodes' = [nodes EXCEPT ![Slot(k, buckets)] = Append(@, m)]
      BY <2>2 DEF Set
    <3>2. Gains(m)
      BY <2>2, <3>1, SetAdds
    <3> QED BY <1>2, <3>2 DEF Gains, Added
  <2> QED BY <2>1, <2>2
<1>4. Scalars' /\ Busy'
  BY <1>1 DEF Shape, Scalars, Busy
<1>5. Arrays'
  BY <1>1, <1>3 DEF Shape, Arrays
<1>6. Apart' /\ Swept'
  BY <1>1, <1>2 DEF Shape, Apart, Swept
<1>7. Counted'
  <2>1. NodeCount' = Cardinality(Places(nodes')) + Cardinality(Places(new_nodes'))
    BY DEF NodeCount
  <2>2. Cardinality(Places(nodes)) <= n_nodes /\ n_nodes \in Nat
    BY <1>2 DEF Shape, Scalars, Counted, NodeCount
  <2>3. IsFiniteSet(Places(nodes'))
    BY <1>3 DEF Table
  <2>4. Cardinality(Places(nodes')) \in Nat
    BY <2>3, FS_CardinalityType
  <2> QED BY <1>1, <1>2, <1>3, <2>1, <2>2, <2>4 DEF Counted
<1> QED BY <1>4, <1>5, <1>6, <1>7 DEF Shape

(* A step that drops a node and decrements n_nodes.                        *)
LEMMA ShapeDrop ==
  ASSUME Shape, phase # "rehash", NEW n, Loses(n), n_nodes' = n_nodes - 1
  PROVE  n_nodes' \in Nat /\ Cardinality(Places(nodes')) <= n_nodes' /\ Table(nodes', buckets)
<1>1. Cardinality(Places(nodes)) <= n_nodes /\ n_nodes \in Nat /\ Cardinality(Places(nodes)) \in Nat
  BY Counts DEF Shape, Scalars, Counted, NodeCount
<1> QED BY <1>1 DEF Loses, Dropped

(* ht_delete.                                                              *)
LEMMA ShapeDelete ==
  ASSUME Shape, NEW k \in Key, Delete(k)
  PROVE  Shape'
<1>1. /\ op = "idle" /\ phase = "none" /\ n_nodes' = n_nodes - 1 /\ phase' = "adjust" /\ Has(k)
      /\ nodes' = [nodes EXCEPT ![Slot(k, buckets)] = RemoveAt(@, FindNode(k))]
      /\ buckets' = buckets /\ op' = op /\ new_bucks' = new_bucks /\ new_nodes' = new_nodes
      /\ j' = j /\ i' = i /\ pos' = pos /\ visited' = visited
  BY DEF Delete, Quiet, rehash
<1>2. PICK n : Loses(n)
  BY <1>1, DeleteDrops
<1>3. NodesOf(new_nodes) = {} /\ Cardinality(Places(new_nodes)) = 0
  BY <1>1, Counts
<1>4. n_nodes' \in Nat /\ Cardinality(Places(nodes')) <= n_nodes' /\ Table(nodes', buckets)
  BY <1>1, <1>2, ShapeDrop
<1>5. Scalars' /\ Busy'
  BY <1>1, <1>4 DEF Shape, Scalars, Busy
<1>6. Arrays'
  BY <1>1, <1>4 DEF Shape, Arrays
<1>7. Apart' /\ Swept'
  BY <1>1, <1>3 DEF Shape, Apart, Swept
<1>8. Counted'
  <2>1. NodeCount' = Cardinality(Places(nodes')) + Cardinality(Places(new_nodes'))
    BY DEF NodeCount
  <2>2. Cardinality(Places(nodes')) \in Nat
    BY <1>2 DEF Loses, Dropped
  <2> QED BY <1>1, <1>3, <1>4, <2>1, <2>2 DEF Counted
<1> QED BY <1>5, <1>6, <1>7, <1>8 DEF Shape

(* _adjust_by_density up to its loop.                                      *)
LEMMA ShapeAdjust ==
  ASSUME Shape, AdjustBegin \/ AdjustReturn
  PROVE  Shape'
<1>1. /\ phase = "adjust" /\ buckets' = buckets /\ nodes' = nodes /\ n_nodes' = n_nodes
      /\ op' = op /\ i' = i /\ pos' = pos /\ visited' = visited
  BY DEF AdjustBegin, AdjustReturn, table
<1>2. /\ NodesOf(new_nodes) = {} /\ Cardinality(Places(new_nodes)) = 0
      /\ Cardinality(Places(nodes)) \in Nat /\ Cardinality(Places(nodes)) <= n_nodes
      /\ n_nodes \in Nat /\ op = "idle"
  BY <1>1, Counts DEF Shape, Scalars, Counted, NodeCount, Busy
<1>3. CASE AdjustReturn
  <2>1. phase' = "none" /\ new_bucks' = new_bucks /\ new_nodes' = new_nodes /\ j' = j
    BY <1>3 DEF AdjustReturn, rehash
  <2>2. Scalars' /\ Busy' /\ Swept'
    BY <1>1, <1>2, <2>1 DEF Shape, Scalars, Busy, Swept
  <2>3. Arrays' /\ Apart'
    BY <1>1, <1>2, <2>1 DEF Shape, Arrays, Apart
  <2>4. Counted'
    BY <1>1, <1>2, <2>1 DEF Counted, NodeCount
  <2> QED BY <2>2, <2>3, <2>4 DEF Shape
<1>4. CASE AdjustBegin
  <2>1. phase' = "rehash" /\ new_bucks' = NewBucks /\ new_nodes' = Empty(NewBucks) /\ j' = 0
    BY <1>4 DEF AdjustBegin
  <2>2. NewBucks \in Index
    <3>1. buckets \in Nat /\ buckets < Len(Primes) /\ Len(Primes) \in Nat
      BY TableAssumption DEF Shape, Scalars, Index
    <3> QED BY <1>4, <3>1 DEF AdjustBegin, NewBucks, TooSparse, TooDense, Index
  <2>3. /\ Table(new_nodes', new_bucks') /\ NodesOf(new_nodes') = {}
        /\ Cardinality(Places(new_nodes')) = 0
    BY <2>1, <2>2, Empties
  <2>4. Scalars' /\ Busy'
    BY <1>1, <1>2, <2>1, <2>2 DEF Shape, Scalars, Busy
  <2>5. Arrays' /\ Apart'
    BY <1>1, <2>1, <2>3 DEF Shape, Arrays, Apart
  <2>6. Swept'
    <3>1. \A s \in Slots(buckets) : ~(s < 0)
      BY Slotted DEF Shape, Scalars
    <3> QED BY <1>1, <1>2, <2>1, <3>1 DEF Swept
  <2>7. Counted'
    BY <1>1, <1>2, <2>3 DEF Counted, NodeCount
  <2> QED BY <2>4, <2>5, <2>6, <2>7 DEF Shape
<1> QED BY <1>3, <1>4

(* An iteration of the rehash: a node changes arrays.                      *)
LEMMA ShapeRehashNode ==
  ASSUME Shape, RehashNode
  PROVE  Shape'
<1> DEFINE n == Head(nodes[j])
<1>1. /\ phase = "rehash" /\ j \in Slots(buckets) /\ nodes[j] # << >>
      /\ new_nodes' = [new_nodes EXCEPT ![Slot(n.key, new_bucks)] = <<n>> \o @]
      /\ nodes' = [nodes EXCEPT ![j] = Tail(@)]
      /\ buckets' = buckets /\ n_nodes' = n_nodes /\ op' = op /\ phase' = phase
      /\ new_bucks' = new_bucks /\ j' = j /\ i' = i /\ pos' = pos /\ visited' = visited
  BY DEF RehashNode
<1>2. Loses(n) /\ n \in Node
  BY <1>1, HeadDrops
<1>3. n \in NodesOf(nodes)
  BY <1>2 DEF Loses, Dropped
<1> HIDE DEF n
<1>4. NewGains(n)
  BY <1>1, <1>2, <1>3, RehashAdds
<1>5. Scalars' /\ Busy'
  BY <1>1 DEF Shape, Scalars, Busy
<1>6. Arrays'
  BY <1>1, <1>2, <1>4 DEF Loses, Dropped, NewGains, Added, Arrays
<1>7. \A m \in NodesOf(nodes) : m.key = n.key => m = n
  BY <1>3, OneNode DEF Shape, Arrays
<1>8. Apart'
  <2>1. NodesOf(nodes') = NodesOf(nodes) \ {n} /\ NodesOf(new_nodes') = NodesOf(new_nodes) \cup {n}
    BY <1>2, <1>4 DEF Loses, Dropped, NewGains, Added
  <2>2. \A a \in NodesOf(nodes'), b \in NodesOf(new_nodes') : a.key # b.key
    BY <1>7, <2>1 DEF Shape, Apart
  <2> QED BY <1>1, <2>2 DEF Apart
<1>9. Swept'
  <2>1. \A s \in Slots(buckets) : s < j => nodes'[s] = nodes[s]
    <3>1. nodes \in [Slots(buckets) -> Seq(Node)] /\ j \in Nat /\ ~(j < j)
      BY DEF Shape, Scalars, Arrays, Table
    <3> QED BY <1>1, <3>1
  <2> QED BY <1>1, <2>1 DEF Shape, Busy, Swept
<1>10. Counted'
  <2>1. Cardinality(Places(nodes')) = Cardinality(Places(nodes)) - 1
        /\ Cardinality(Places(new_nodes')) = Cardinality(Places(new_nodes)) + 1
    BY <1>2, <1>4 DEF Loses, Dropped, NewGains, Added
  <2>2. NodeCount' = Cardinality(Places(nodes')) + Cardinality(Places(new_nodes'))
    BY DEF NodeCount
  <2>3. NodeCount' = NodeCount
    BY <2>1, <2>2, Counts DEF NodeCount
  <2> QED BY <1>1, <2>3 DEF Shape, Counted
<1> QED BY <1>5, <1>6, <1>8, <1>9, <1>10 DEF Shape

(* The loop of the rehash moves on to the next chain.                      *)
LEMMA ShapeRehashNext ==
  ASSUME Shape, RehashNextBucket
  PROVE  Shape'
<1>1. /\ phase = "rehash" /\ j \in Slots(buckets) /\ nodes[j] = << >> /\ j' = j + 1
      /\ buckets' = buckets /\ nodes' = nodes /\ n_nodes' = n_nodes /\ op' = op /\ phase' = phase
      /\ new_bucks' = new_bucks /\ new_nodes' = new_nodes
      /\ i' = i /\ pos' = pos /\ visited' = visited
  BY DEF RehashNextBucket, table
<1>2. Scalars' /\ Busy' /\ Arrays' /\ Apart'
  BY <1>1 DEF Shape, Scalars, Busy, Arrays, Apart
<1>3. Counted'
  BY <1>1 DEF Shape, Counted, NodeCount
<1>4. Swept'
  <2>1. \A s \in Slots(buckets) : s < j + 1 => s < j \/ s = j
    BY Slotted DEF Shape, Scalars
  <2> QED BY <1>1, <2>1 DEF Shape, Busy, Swept
<1> QED BY <1>2, <1>3, <1>4 DEF Shape

(* The old array, all its chains empty, is replaced by the new one.        *)
LEMMA RehashEndEmpty ==
  ASSUME Shape, RehashEnd
  PROVE  NodesOf(nodes) = {} /\ Cardinality(Places(nodes)) = 0
<1>1. buckets \in Index /\ nodes \in [Slots(buckets) -> Seq(Node)]
  BY DEF Shape, Scalars, Arrays, Table
<1>2. \A s \in Slots(buckets) : s < j
  BY <1>1, Slotted DEF RehashEnd, Shape, Scalars
<1>3. \A s \in Slots(buckets) : nodes[s] = << >>
  BY <1>2 DEF RehashEnd, Shape, Swept
<1> QED BY <1>1, <1>3, EmptyTable, Zenon

(* The end of _rehash: the new array takes the place of the old one.       *)
LEMMA ShapeRehashEnd ==
  ASSUME Shape, RehashEnd
  PROVE  Shape'
<1>1. /\ phase = "rehash" /\ nodes' = new_nodes /\ buckets' = new_bucks /\ phase' = "none"
      /\ new_nodes' = Empty(0) /\ new_bucks' = 0 /\ j' = 0
      /\ n_nodes' = n_nodes /\ op' = op /\ i' = i /\ pos' = pos /\ visited' = visited
  BY DEF RehashEnd
<1>2. /\ Table(Empty(0), 0) /\ NodesOf(Empty(0)) = {} /\ Cardinality(Places(Empty(0))) = 0
      /\ \A s \in Slots(0) : Empty(0)[s] = << >>
  BY FirstIndex, Empties
<1>3. op = "idle"
  BY <1>1 DEF Shape, Busy
<1>4. Scalars' /\ Busy' /\ Swept'
  BY <1>1, <1>3, FirstIndex DEF Shape, Scalars, Busy, Swept
<1>5. Arrays' /\ Apart'
  BY <1>1, <1>2 DEF Shape, Arrays, Apart
<1>6. Counted'
  <2>1. Cardinality(Places(nodes)) = 0 /\ Cardinality(Places(new_nodes)) \in Nat
    BY Counts, RehashEndEmpty
  <2> QED BY <1>1, <1>2, <2>1 DEF Shape, Counted, NodeCount
<1> QED BY <1>4, <1>5, <1>6 DEF Shape

(* ht_purge and ht_free free the nodes from the first chain to the last.   *)
LEMMA ShapePurgeNode ==
  ASSUME Shape, PurgeNode
  PROVE  Shape'
<1>1. /\ op \in {"purge", "free"} /\ i \in Slots(buckets) /\ nodes[i] # << >>
      /\ nodes' = [nodes EXCEPT ![i] = Tail(@)] /\ n_nodes' = n_nodes - 1
      /\ buckets' = buckets /\ op' = op /\ phase' = phase
      /\ new_bucks' = new_bucks /\ new_nodes' = new_nodes /\ j' = j
      /\ i' = i /\ pos' = pos /\ visited' = visited
  BY DEF PurgeNode, rehash
<1>2. phase = "none" /\ op # "idle"
  BY <1>1 DEF Shape, Busy
<1>3. Loses(Head(nodes[i]))
  BY <1>1, HeadDrops
<1>4. n_nodes' \in Nat /\ Cardinality(Places(nodes')) <= n_nodes' /\ Table(nodes', buckets)
  BY <1>1, <1>2, <1>3, ShapeDrop
<1>5. NodesOf(new_nodes) = {} /\ Cardinality(Places(new_nodes)) = 0
  BY <1>2, Counts
<1>6. Scalars' /\ Busy'
  BY <1>1, <1>2, <1>4 DEF Shape, Scalars, Busy
<1>7. Arrays' /\ Apart'
  BY <1>1, <1>4, <1>5 DEF Shape, Arrays, Apart
<1>8. Swept'
  <2>1. \A s \in Slots(buckets) : s < i => nodes'[s] = nodes[s]
    <3>1. nodes \in [Slots(buckets) -> Seq(Node)] /\ i \in Nat /\ ~(i < i)
      BY DEF Shape, Scalars, Arrays, Table
    <3> QED BY <1>1, <3>1
  <2> QED BY <1>1, <1>2, <2>1 DEF Shape, Swept
<1>9. Counted'
  <2>1. NodeCount' = Cardinality(Places(nodes')) + Cardinality(Places(new_nodes'))
    BY DEF NodeCount
  <2>2. Cardinality(Places(nodes')) \in Nat
    BY <1>3 DEF Loses, Dropped
  <2> QED BY <1>1, <1>4, <1>5, <2>1, <2>2 DEF Counted
<1> QED BY <1>6, <1>7, <1>8, <1>9 DEF Shape

(* The end of ht_free: an empty table again.                               *)
LEMMA ShapeFreeEnd ==
  ASSUME Shape, FreeEnd
  PROVE  Shape'
<1>1. /\ op = "free" /\ op' = "idle" /\ buckets' = 0 /\ nodes' = Empty(0) /\ n_nodes' = 0
      /\ i' = 0 /\ pos' = 1 /\ visited' = << >> /\ phase' = phase
      /\ new_bucks' = new_bucks /\ new_nodes' = new_nodes /\ j' = j
  BY DEF FreeEnd, LoopDone, rehash
<1>2. /\ Table(Empty(0), 0) /\ NodesOf(Empty(0)) = {} /\ Cardinality(Places(Empty(0))) = 0
  BY FirstIndex, Empties
<1>3. phase = "none" /\ Cardinality(Places(new_nodes)) = 0
  BY <1>1, Counts DEF Shape, Busy
<1>4. Scalars' /\ Busy' /\ Swept'
  BY <1>1, <1>3, FirstIndex DEF Shape, Scalars, Busy, Swept
<1>5. Arrays' /\ Apart'
  BY <1>1, <1>2, <1>3 DEF Shape, Arrays, Apart
<1>6. Counted'
  BY <1>1, <1>2, <1>3 DEF Counted, NodeCount
<1> QED BY <1>4, <1>5, <1>6 DEF Shape

(* The steps that change no node.                                          *)
LEMMA ShapeLoops ==
  ASSUME Shape,
         \/ PurgeBegin \/ PurgeNextBucket \/ PurgeEnd
         \/ ForeachBegin \/ ForeachVisit \/ ForeachStop \/ ForeachNextBucket \/ ForeachEnd
         \/ UNCHANGED vars
  PROVE  Shape'
<1>1. /\ buckets' = buckets /\ nodes' = nodes /\ n_nodes' = n_nodes /\ phase' = phase
      /\ new_bucks' = new_bucks /\ new_nodes' = new_nodes /\ j' = j
  BY DEF PurgeBegin, PurgeNextBucket, PurgeEnd, ForeachBegin, ForeachVisit, ForeachStop,
         ForeachNextBucket, ForeachEnd, vars, table, rehash
<1>2. Arrays' /\ Apart' /\ Counted'
  BY <1>1 DEF Shape, Arrays, Apart, Counted, NodeCount
<1>3. Slots(buckets) \subseteq Nat /\ i \in Nat /\ buckets \in Index /\ pos \in Nat
      /\ visited \in Seq(Key)
  BY Slotted DEF Shape, Scalars
<1>4. CASE PurgeBegin \/ ForeachBegin
  <2>1. /\ op = "idle" /\ phase = "none" /\ op' \in {"purge", "free", "foreach"}
        /\ i' = i /\ pos' = pos /\ visited' = visited /\ i = 0
    BY <1>4 DEF PurgeBegin, ForeachBegin, Quiet, Shape, Busy
  <2>2. Scalars' /\ Busy' /\ Swept'
    BY <1>1, <1>3, <2>1 DEF Shape, Scalars, Busy, Swept
  <2> QED BY <1>2, <2>2 DEF Shape
<1>5. CASE PurgeNextBucket
  <2>1. /\ op \in {"purge", "free"} /\ nodes[i] = << >> /\ i' = i + 1 /\ op' = op
        /\ pos' = pos /\ visited' = visited /\ phase = "none" /\ op # "idle"
    BY <1>5 DEF PurgeNextBucket, Shape, Busy
  <2>2. \A s \in Slots(buckets) : s < i + 1 => s < i \/ s = i
    BY <1>3
  <2>3. Scalars' /\ Busy'
    BY <1>1, <1>3, <2>1 DEF Shape, Scalars, Busy
  <2>4. Swept'
    BY <1>1, <2>1, <2>2 DEF Shape, Swept
  <2> QED BY <1>2, <2>3, <2>4 DEF Shape
<1>6. CASE PurgeEnd \/ ForeachStop \/ ForeachEnd
  <2>1. op # "idle" /\ op' = "idle" /\ i' = 0 /\ pos' = 1 /\ visited' = << >>
    BY <1>6 DEF PurgeEnd, ForeachStop, ForeachEnd, AtNode, LoopDone
  <2>2. Scalars' /\ Busy' /\ Swept'
    BY <1>1, <2>1 DEF Shape, Scalars, Busy, Swept
  <2> QED BY <1>2, <2>2 DEF Shape
<1>7. CASE ForeachVisit \/ ForeachNextBucket
  <2>1. op = "foreach" /\ op' = op /\ phase = "none" /\ i' \in Nat /\ pos' \in Nat \ {0}
    BY <1>3, <1>7 DEF ForeachVisit, ForeachNextBucket, AtNode
  <2>2. visited' \in Seq(Key)
    <3>1. CASE ForeachVisit
      <4>1. nodes[i][pos] \in Node /\ visited' = Append(visited, nodes[i][pos].key)
        BY <3>1 DEF ForeachVisit, AtNode, Shape, Arrays, Table
      <4>2. nodes[i][pos].key \in Key
        BY <4>1, NodeForm
      <4> QED BY <1>3, <4>1, <4>2
    <3>2. CASE ForeachNextBucket
      BY <1>3, <3>2 DEF ForeachNextBucket
    <3> QED BY <1>7, <3>1, <3>2
  <2>3. Scalars' /\ Busy' /\ Swept'
    BY <1>1, <2>1, <2>2 DEF Shape, Scalars, Busy, Swept
  <2> QED BY <1>2, <2>3 DEF Shape
<1>8. CASE UNCHANGED vars
  <2>1. op' = op /\ i' = i /\ pos' = pos /\ visited' = visited
    BY <1>8 DEF vars
  <2>2. Scalars' /\ Busy' /\ Swept'
    BY <1>1, <2>1 DEF Shape, Scalars, Busy, Swept
  <2> QED BY <1>2, <2>2 DEF Shape
<1> QED BY <1>4, <1>5, <1>6, <1>7, <1>8

(* So every step keeps the shape.                                          *)
LEMMA ShapeStep ==
  ASSUME Shape, [Next]_vars
  PROVE  Shape'
<1>1. ASSUME NEW k \in Key, Delete(k) PROVE Shape'
  BY <1>1, ShapeDelete
<1>2. ASSUME NEW k \in Key, NEW v \in Value, Set(k, v) PROVE Shape'
  BY <1>2, ShapeSet
<1>3. CASE Adjust
  BY <1>3, ShapeAdjust, ShapeRehashNode, ShapeRehashNext, ShapeRehashEnd DEF Adjust
<1>4. CASE PurgeNode \/ FreeEnd
  BY <1>4, ShapePurgeNode, ShapeFreeEnd
<1>5. CASE \/ PurgeBegin \/ PurgeNextBucket \/ PurgeEnd
           \/ ForeachBegin \/ ForeachVisit \/ ForeachStop \/ ForeachNextBucket \/ ForeachEnd
           \/ UNCHANGED vars
  BY <1>5, ShapeLoops
<1> QED BY <1>1, <1>2, <1>3, <1>4, <1>5 DEF Next, Internal

(* The invariant holds in every reachable state.                           *)
LEMMA ShapeAlways == Spec => []Shape
  BY ShapeInit, ShapeStep, PTL DEF Spec

(* n_nodes never falls below the number of nodes, and _cleanup_node_util   *)
(* never wraps it around (hashtable.c:177).                                *)
THEOREM TableSizeNeverUnder == Spec => []SizeNeverUnder
<1>1. Shape => SizeNeverUnder
  BY DEF Shape, Scalars, Arrays, Table, Counted, SizeNeverUnder, TypeOK
<1> QED BY <1>1, ShapeAlways, PTL

----------------------------------------------------------------------------
(* What the nodes stand for.                                               *)

Single(N) == N \subseteq Node /\ \A m, n \in N : m.key = n.key => m = n

Meaning(N) == [k \in Key |-> IF \E n \in N : n.key = k
                             THEN (CHOOSE n \in N : n.key = k).value
                             ELSE NoValue]

(* A set with one node for each key maps the key to the value of that      *)
(* node.                                                                   *)
LEMMA MeaningAt ==
  ASSUME NEW N, Single(N), NEW k \in Key
  PROVE  /\ \A n \in N : n.key = k => Meaning(N)[k] = n.value
         /\ (\A n \in N : n.key # k) => Meaning(N)[k] = NoValue
         /\ Meaning(N)[k] \in Value \cup {NoValue}
<1>1. ASSUME NEW n \in N, n.key = k PROVE Meaning(N)[k] = n.value
  <2>1. (CHOOSE m \in N : m.key = k) = n
    BY <1>1 DEF Single
  <2> QED BY <1>1, <2>1 DEF Meaning
<1>2. ASSUME \A n \in N : n.key # k PROVE Meaning(N)[k] = NoValue
  BY <1>2 DEF Meaning
<1>3. \A n \in N : n.value \in Value
  BY NodeForm DEF Single
<1> QED BY <1>1, <1>2, <1>3

(* Two sets of nodes that differ at key k alone.                           *)
LEMMA MeaningDiffers ==
  ASSUME NEW N, Single(N), NEW M, Single(M), NEW k \in Key,
         \A n \in N : n.key # k => n \in M, \A n \in M : n.key # k => n \in N
  PROVE  Meaning(M) = [Meaning(N) EXCEPT ![k] = Meaning(M)[k]]
<1>1. ASSUME NEW q \in Key, q # k PROVE Meaning(M)[q] = Meaning(N)[q]
  <2>1. CASE \E n \in N : n.key = q
    <3>1. PICK n \in N : n.key = q
      BY <2>1
    <3>2. n \in M
      BY <1>1, <3>1
    <3> QED BY <3>1, <3>2, MeaningAt
  <2>2. CASE \A n \in N : n.key # q
    <3>1. \A n \in M : n.key # q
      BY <1>1, <2>2
    <3> QED BY <2>2, <3>1, MeaningAt
  <2> QED BY <2>1, <2>2
<1>2. DOMAIN Meaning(M) = Key /\ DOMAIN Meaning(N) = Key /\ Meaning(M) = [q \in Key |-> Meaning(M)[q]]
  BY DEF Meaning
<1>3. [Meaning(N) EXCEPT ![k] = Meaning(M)[k]]
        = [q \in Key |-> IF q = k THEN Meaning(M)[k] ELSE Meaning(N)[q]]
  BY <1>2
<1> HIDE DEF Meaning
<1>4. \A q \in Key : Meaning(M)[q] = IF q = k THEN Meaning(M)[k] ELSE Meaning(N)[q]
  BY <1>1
<1> QED BY <1>2, <1>3, <1>4

(* The nodes of both arrays together have one node for each key, and they  *)
(* are the contents of the table.                                          *)
LEMMA AllSingle ==
  ASSUME Shape
  PROVE  Single(AllNodes) /\ Contents = Meaning(AllNodes)
<1>1. Table(nodes, buckets) /\ Table(new_nodes, new_bucks)
  BY DEF Shape, Arrays
<1>2. AllNodes \subseteq Node
  BY <1>1, NodesAreNodes DEF AllNodes
<1>3. ASSUME NEW m \in AllNodes, NEW n \in AllNodes, m.key = n.key PROVE m = n
  BY <1>1, <1>3, OneNode DEF AllNodes, Shape, Apart
<1> QED BY <1>2, <1>3 DEF Single, Contents, Meaning

(* The same after a step.                                                  *)
LEMMA AllSingleNext ==
  ASSUME Shape'
  PROVE  Single(AllNodes') /\ Contents' = Meaning(AllNodes')
<1>1. /\ Table(nodes', buckets') /\ Table(new_nodes', new_bucks')
      /\ AllNodes' = NodesOf(nodes') \cup NodesOf(new_nodes')
      /\ \A m \in NodesOf(nodes'), n \in NodesOf(new_nodes') : m.key # n.key
  BY DEF Shape, Arrays, Apart, AllNodes
<1>2. AllNodes' \subseteq Node
  BY <1>1, NodesAreNodes
<1>3. ASSUME NEW m \in AllNodes', NEW n \in AllNodes', m.key = n.key PROVE m = n
  BY <1>1, <1>3, OneNode
<1>4. Contents' = Meaning(AllNodes')
  BY DEF Contents, Meaning
<1> QED BY <1>2, <1>3, <1>4 DEF Single

(* Outside a resize ht_get finds every key that is in the table, in its    *)
(* one chain and with its value (hashtable.c:212-250, 321-345).            *)
THEOREM TableLookupFindsAll == Spec => []LookupFindsAll
<1>1. Shape => LookupFindsAll
  <2> SUFFICES ASSUME Shape, phase = "none", NEW k \in Key PROVE Get(k) = Contents[k]
    BY DEF LookupFindsAll
  <2>1. AllNodes = NodesOf(nodes)
    BY Counts DEF AllNodes
  <2>2. Single(AllNodes) /\ Contents = Meaning(AllNodes)
    BY AllSingle
  <2>3. CASE Has(k)
    <3> DEFINE n == nodes[Slot(k, buckets)][FindNode(k)]
    <3>1. n.key = k /\ n \in NodesOf(nodes)
      BY <2>3, HasNode, NodesOfIn DEF Range, Shape, Arrays, Table
    <3>2. Get(k) = n.value
      BY <2>3 DEF Get
    <3> HIDE DEF n
    <3> QED BY <2>1, <2>2, <3>1, <3>2, MeaningAt
  <2>4. CASE ~Has(k)
    <3>1. \A n \in AllNodes : n.key # k
      BY <2>1, <2>4, HasNode
    <3> QED BY <2>2, <2>4, <3>1, MeaningAt DEF Get
  <2> QED BY <2>3, <2>4
<1> QED BY <1>1, ShapeAlways, PTL

----------------------------------------------------------------------------
(* Counting the nodes by their places and by their keys.                   *)

KeysOf(f) == {n.key : n \in NodesOf(f)}

(* There are as many places in an array as keys in it.                     *)
LEMMA PlacesAndKeys ==
  ASSUME NEW f, NEW b, Table(f, b)
  PROVE  IsFiniteSet(KeysOf(f)) /\ Cardinality(KeysOf(f)) = Cardinality(Places(f))
<1> DEFINE h == [x \in Places(f) |-> f[x[1]][x[2]].key]
<1>1. f \in [Slots(b) -> Seq(Node)] /\ IsFiniteSet(Places(f))
  BY DEF Table
<1>2. \A x \in Places(f) : \E s \in Slots(b) : \E p \in DOMAIN f[s] : x = <<s, p>>
  BY <1>1, PlacesIn
<1>3. \A s \in Slots(b) : \A p \in DOMAIN f[s] : <<s, p>> \in Places(f) /\ h[<<s, p>>] = f[s][p].key
  BY <1>1, PlacesIn
<1>4. \A s \in Slots(b) : \A p \in DOMAIN f[s] : f[s][p] \in NodesOf(f) /\ f[s][p] \in Range(f[s])
  BY <1>1, NodesOfIn DEF Range
<1>5. \A n \in NodesOf(f) : \E s \in Slots(b) : \E p \in DOMAIN f[s] : n = f[s][p]
  BY <1>1, NodesOfIn DEF Range
<1>6. DOMAIN h = Places(f)
  OBVIOUS
<1>7. h \in [Places(f) -> KeysOf(f)]
  <2>1. ASSUME NEW x \in Places(f) PROVE f[x[1]][x[2]].key \in KeysOf(f)
    <3>1. PICK s \in Slots(b) : \E p \in DOMAIN f[s] : x = <<s, p>>
      BY <1>2
    <3>2. PICK p \in DOMAIN f[s] : x = <<s, p>>
      BY <3>1
    <3>3. f[s][p] \in NodesOf(f) /\ x[1] = s /\ x[2] = p
      BY <1>4, <3>2
    <3> QED BY <3>3 DEF KeysOf
  <2> QED BY <2>1
<1> HIDE DEF h
<1>8. ASSUME NEW x \in Places(f), NEW y \in Places(f), h[x] = h[y] PROVE x = y
  <2>1. PICK s \in Slots(b) : \E p \in DOMAIN f[s] : x = <<s, p>>
    BY <1>2
  <2>2. PICK p \in DOMAIN f[s] : x = <<s, p>>
    BY <2>1
  <2>3. PICK t \in Slots(b) : \E q \in DOMAIN f[t] : y = <<t, q>>
    BY <1>2
  <2>4. PICK q \in DOMAIN f[t] : y = <<t, q>>
    BY <2>3
  <2>5. f[s][p].key = f[t][q].key
    BY <1>3, <1>8, <2>2, <2>4
  <2>6. s = t
    BY <1>4, <2>5 DEF Table
  <2>7. p = q
    BY <2>5, <2>6 DEF Table, Distinct
  <2> QED BY <2>2, <2>4, <2>6, <2>7
<1>9. ASSUME NEW k \in KeysOf(f) PROVE \E x \in Places(f) : h[x] = k
  <2>1. PICK n \in NodesOf(f) : n.key = k
    BY DEF KeysOf
  <2>2. PICK s \in Slots(b) : \E p \in DOMAIN f[s] : n = f[s][p]
    BY <1>5
  <2>3. PICK p \in DOMAIN f[s] : n = f[s][p]
    BY <2>2
  <2> QED BY <1>3, <2>1, <2>3
<1>10. h \in Bijection(Places(f), KeysOf(f))
  BY <1>7, <1>8, <1>9 DEF Bijection, Injection, Surjection, IsInjective
<1>11. ExistsBijection(Places(f), KeysOf(f))
  BY <1>10 DEF ExistsBijection
<1> QED BY <1>1, <1>11, FS_Bijection

(* No key has two nodes, not even half-way through a rehash                *)
(* (hashtable.c:289-291).                                                  *)
THEOREM TableNoDuplicates == Spec => []NoDuplicates
<1>1. Shape => NoDuplicates
  <2> SUFFICES ASSUME Shape PROVE NoDuplicates
    OBVIOUS
  <2>1. /\ IsFiniteSet(KeysOf(nodes)) /\ Cardinality(KeysOf(nodes)) = Cardinality(Places(nodes))
        /\ IsFiniteSet(KeysOf(new_nodes))
        /\ Cardinality(KeysOf(new_nodes)) = Cardinality(Places(new_nodes))
    BY PlacesAndKeys DEF Shape, Arrays
  <2>2. KeysOf(nodes) \cap KeysOf(new_nodes) = {}
    BY DEF KeysOf, Shape, Apart
  <2>3. {n.key : n \in AllNodes} = KeysOf(nodes) \cup KeysOf(new_nodes)
    BY DEF AllNodes, KeysOf
  <2>4. Cardinality(KeysOf(nodes) \cup KeysOf(new_nodes))
          = Cardinality(KeysOf(nodes)) + Cardinality(KeysOf(new_nodes))
              - Cardinality(KeysOf(nodes) \cap KeysOf(new_nodes))
    BY <2>1, FS_Union, Zenon
  <2>5. Cardinality(KeysOf(nodes) \cap KeysOf(new_nodes)) = 0
    BY <2>2, FS_EmptySet
  <2>6. Cardinality(KeysOf(nodes) \cup KeysOf(new_nodes)) = NodeCount
    BY <2>1, <2>4, <2>5, Counts DEF NodeCount
  <2> QED BY <2>3, <2>6, Zenon DEF NoDuplicates
<1> QED BY <1>1, ShapeAlways, PTL

----------------------------------------------------------------------------
(* The refinement of Dictionary.                                           *)

(* A step that changes the nodes of key k alone, outside a resize.         *)
LEMMA PutStep ==
  ASSUME Shape, Shape', phase = "none", NEW k \in Key,
         \A n \in AllNodes : n.key # k => n \in AllNodes',
         \A n \in AllNodes' : n.key # k => n \in AllNodes
  PROVE  Dict!Next
<1>1. Single(AllNodes) /\ Contents = Meaning(AllNodes)
  BY AllSingle
<1>2. Single(AllNodes') /\ Contents' = Meaning(AllNodes')
  BY AllSingleNext
<1>3. Contents' = [Contents EXCEPT ![k] = Contents'[k]]
  BY <1>1, <1>2, MeaningDiffers
<1>4. Contents'[k] \in Value \cup {NoValue}
  BY <1>2, MeaningAt
<1>5. Dict!Put(k, Contents'[k])
  BY <1>3 DEF Dict!Put
<1> QED BY <1>4, <1>5 DEF Dict!Next

(* A step that changes no node.                                            *)
LEMMA SameContents ==
  ASSUME AllNodes' = AllNodes
  PROVE  Contents' = Contents
BY DEF Contents

(* Every step of the table is a step of the dictionary or changes nothing. *)
LEMMA DictionaryStep ==
  ASSUME Shape, Shape', [Next]_vars
  PROVE  [Dict!Next]_<<Contents, phase # "none">>
<1>0. ASSUME AllNodes' = AllNodes, (phase # "none")' = (phase # "none")
      PROVE  [Dict!Next]_<<Contents, phase # "none">>
  BY <1>0, SameContents
<1>1. ASSUME NEW k \in Key, NEW v \in Value, Set(k, v) PROVE Dict!Next
  <2> DEFINE m == [key |-> k, value |-> v]
  <2>1. phase = "none" /\ new_nodes' = new_nodes /\ m.key = k
    BY <1>1 DEF Set, Quiet, rehash
  <2>2. CASE Has(k)
    <3> DEFINE n == nodes[Slot(k, buckets)][FindNode(k)]
    <3>1. nodes' = [nodes EXCEPT ![Slot(k, buckets)][FindNode(k)].value = v]
      BY <1>1, <2>2 DEF Set
    <3>2. Exchanges(n, m) /\ n.key = k
      BY <2>2, <3>1, SetOverwrites
    <3> HIDE DEF n, m
    <3>3. NodesOf(nodes') = (NodesOf(nodes) \ {n}) \cup {m}
      BY <3>2 DEF Exchanges, Changed
    <3>4. AllNodes' = NodesOf(nodes') \cup NodesOf(new_nodes')
      BY DEF AllNodes
    <3>5. /\ \A x \in AllNodes : x.key # k => x \in AllNodes'
          /\ \A x \in AllNodes' : x.key # k => x \in AllNodes
      BY <2>1, <3>2, <3>3, <3>4 DEF AllNodes
    <3> QED BY <2>1, <3>5, PutStep
  <2>3. CASE ~Has(k)
    <3>1. nodes' = [nodes EXCEPT ![Slot(k, buckets)] = Append(@, m)]
      BY <1>1, <2>3 DEF Set
    <3>2. Gains(m)
      BY <2>3, <3>1, SetAdds
    <3> HIDE DEF m
    <3>3. NodesOf(nodes') = NodesOf(nodes) \cup {m}
      BY <3>2 DEF Gains, Added
    <3>4. AllNodes' = NodesOf(nodes') \cup NodesOf(new_nodes')
      BY DEF AllNodes
    <3>5. /\ \A x \in AllNodes : x.key # k => x \in AllNodes'
          /\ \A x \in AllNodes' : x.key # k => x \in AllNodes
      BY <2>1, <3>3, <3>4 DEF AllNodes
    <3> QED BY <2>1, <3>5, PutStep
  <2> QED BY <2>2, <2>3
<1>2. ASSUME NEW n, Loses(n), phase = "none", new_nodes' = new_nodes PROVE Dict!Next
  <2>1. n \in NodesOf(nodes) /\ NodesOf(nodes') = NodesOf(nodes) \ {n}
    BY <1>2 DEF Loses, Dropped
  <2>2. n.key \in Key
    BY <2>1, NodesAreNodes, NodeForm DEF Shape, Arrays
  <2>3. AllNodes' = NodesOf(nodes') \cup NodesOf(new_nodes')
    BY DEF AllNodes
  <2>4. /\ \A x \in AllNodes : x.key # n.key => x \in AllNodes'
        /\ \A x \in AllNodes' : x.key # n.key => x \in AllNodes
    BY <1>2, <2>1, <2>3 DEF AllNodes
  <2> QED BY <1>2, <2>2, <2>4, PutStep
<1>3. ASSUME NEW k \in Key, Delete(k) PROVE Dict!Next
  <2>1. /\ phase = "none" /\ new_nodes' = new_nodes /\ Has(k)
        /\ nodes' = [nodes EXCEPT ![Slot(k, buckets)] = RemoveAt(@, FindNode(k))]
    BY <1>3 DEF Delete, Quiet, rehash
  <2>2. PICK n : Loses(n)
    BY <2>1, DeleteDrops
  <2> QED BY <1>2, <2>1, <2>2
<1>4. CASE PurgeNode
  <2>1. /\ i \in Slots(buckets) /\ nodes[i] # << >> /\ nodes' = [nodes EXCEPT ![i] = Tail(@)]
        /\ new_nodes' = new_nodes /\ phase = "none"
    BY <1>4 DEF PurgeNode, rehash, Shape, Busy
  <2>2. Loses(Head(nodes[i]))
    BY <2>1, HeadDrops
  <2> QED BY <1>2, <2>1, <2>2
<1>5. CASE RehashNode
  <2> DEFINE n == Head(nodes[j])
  <2>1. /\ phase' = phase /\ j \in Slots(buckets) /\ nodes[j] # << >>
        /\ new_nodes' = [new_nodes EXCEPT ![Slot(n.key, new_bucks)] = <<n>> \o @]
        /\ nodes' = [nodes EXCEPT ![j] = Tail(@)]
    BY <1>5 DEF RehashNode
  <2>2. Loses(n) /\ n \in Node
    BY <2>1, HeadDrops
  <2> HIDE DEF n
  <2>3. n \in NodesOf(nodes) /\ NodesOf(nodes') = NodesOf(nodes) \ {n}
    BY <2>2 DEF Loses, Dropped
  <2>4. NewGains(n)
    BY <2>1, <2>2, <2>3, RehashAdds
  <2>5. NodesOf(new_nodes') = NodesOf(new_nodes) \cup {n}
    BY <2>4 DEF NewGains, Added
  <2>6. AllNodes' = AllNodes
    BY <2>3, <2>5 DEF AllNodes
  <2> QED BY <1>0, <2>1, <2>6
<1>6. CASE RehashEnd
  <2>1. phase = "rehash" /\ phase' = "none" /\ nodes' = new_nodes /\ new_nodes' = Empty(0)
    BY <1>6 DEF RehashEnd
  <2>2. NodesOf(nodes) = {} /\ NodesOf(Empty(0)) = {}
    BY <1>6, RehashEndEmpty, FirstIndex, Empties
  <2>3. AllNodes' = AllNodes
    BY <2>1, <2>2 DEF AllNodes
  <2>4. Dict!Resized
    BY <2>1, <2>3, SameContents DEF Dict!Resized
  <2> QED BY <2>4 DEF Dict!Next
<1>7. CASE AdjustReturn
  <2>1. phase = "adjust" /\ phase' = "none" /\ nodes' = nodes /\ new_nodes' = new_nodes
    BY <1>7 DEF AdjustReturn, table, rehash
  <2>2. AllNodes' = AllNodes
    BY <2>1 DEF AllNodes
  <2>3. Dict!Resized
    BY <2>1, <2>2, SameContents DEF Dict!Resized
  <2> QED BY <2>3 DEF Dict!Next
<1>8. CASE AdjustBegin
  <2>1. phase = "adjust" /\ phase' = "rehash" /\ nodes' = nodes /\ new_nodes' = Empty(NewBucks)
        /\ new_bucks' = NewBucks
    BY <1>8 DEF AdjustBegin, table
  <2>2. NodesOf(new_nodes) = {}
    BY <2>1, Counts
  <2>3. NewBucks \in Index
    BY <2>1 DEF Shape, Scalars
  <2>4. NodesOf(new_nodes') = {}
    BY <2>1, <2>3, Empties
  <2>5. AllNodes' = AllNodes
    BY <2>1, <2>2, <2>4 DEF AllNodes
  <2> QED BY <1>0, <2>1, <2>5
<1>9. CASE FreeEnd
  <2>1. /\ op = "free" /\ i \notin Slots(buckets) /\ nodes' = Empty(0) /\ phase' = phase
        /\ new_nodes' = new_nodes
    BY <1>9 DEF FreeEnd, rehash
  <2>2. buckets \in Index /\ nodes \in [Slots(buckets) -> Seq(Node)]
        /\ \A s \in Slots(buckets) : nodes[s] = << >>
    BY <2>1, Slotted DEF Shape, Scalars, Arrays, Table, Swept
  <2>3. NodesOf(nodes) = {}
    BY <2>2, EmptyTable, Zenon
  <2>4. NodesOf(nodes') = {}
    BY <2>1, FirstIndex, Empties
  <2>5. AllNodes' = AllNodes
    BY <2>1, <2>3, <2>4 DEF AllNodes
  <2> QED BY <1>0, <2>1, <2>5
<1>10. CASE \/ PurgeBegin \/ PurgeNextBucket \/ PurgeEnd \/ RehashNextBucket
            \/ ForeachBegin \/ ForeachVisit \/ ForeachStop \/ ForeachNextBucket \/ ForeachEnd
            \/ UNCHANGED vars
  <2>1. nodes' = nodes /\ phase' = phase /\ new_nodes' = new_nodes
    BY <1>10 DEF PurgeBegin, PurgeNextBucket, PurgeEnd, ForeachBegin, ForeachVisit, ForeachStop,
       ForeachNextBucket, ForeachEnd, RehashNextBucket, vars, table, rehash
  <2>2. AllNodes' = AllNodes
    BY <2>1 DEF AllNodes
  <2> QED BY <1>0, <2>1, <2>2
<1> QED BY <1>1, <1>3, <1>4, <1>5, <1>6, <1>7, <1>8, <1>9, <1>10 DEF Next, Internal, Adjust

(* The table is a dictionary: a call changes it at its key alone, and the  *)
(* steps of a resize not at all (hashtable.c:212-355).                     *)
THEOREM TableImplementsDictionary == Spec => ImplementsDictionary
<1>1. Init => Dict!Init
  <2> SUFFICES ASSUME Init PROVE Dict!Init
    OBVIOUS
  <2>1. NodesOf(nodes) = {} /\ NodesOf(new_nodes) = {} /\ phase = "none"
    BY FirstIndex, Empties DEF Init
  <2>2. \A n \in AllNodes : FALSE
    BY <2>1 DEF AllNodes
  <2>3. Contents = [k \in Key |-> NoValue]
    BY <2>2 DEF Contents
  <2> QED BY <2>1, <2>3 DEF Dict!Init
<1>2. Shape /\ Shape' /\ [Next]_vars => [Dict!Next]_<<Contents, phase # "none">>
  BY DictionaryStep
<1> QED BY <1>1, <1>2, ShapeAlways, PTL DEF Spec, Dict!Spec, ImplementsDictionary

----------------------------------------------------------------------------
(* ht_foreach.                                                             *)

(* The places the loop has passed.                                         *)
Passed(s, p) == s < i \/ (s = i /\ p < pos)

(* body has been given the keys of those places, each once.                *)
Passing ==
    op = "foreach" =>
        /\ \A q \in DOMAIN visited : \E s \in Slots(buckets) : \E p \in DOMAIN nodes[s] :
              Passed(s, p) /\ visited[q] = nodes[s][p].key
        /\ \A s \in Slots(buckets) : \A p \in DOMAIN nodes[s] :
              Passed(s, p) => \E q \in DOMAIN visited : visited[q] = nodes[s][p].key
        /\ \A q, r \in DOMAIN visited : visited[q] = visited[r] => q = r

(* A key hangs at one place.                                               *)
LEMMA OnePlace ==
  ASSUME Shape, NEW s \in Slots(buckets), NEW p \in DOMAIN nodes[s],
         NEW t \in Slots(buckets), NEW q \in DOMAIN nodes[t], nodes[s][p].key = nodes[t][q].key
  PROVE  s = t /\ p = q
<1>1. nodes[s][p] \in Range(nodes[s]) /\ nodes[t][q] \in Range(nodes[t])
  BY DEF Range
<1>2. s = t
  BY <1>1 DEF Shape, Arrays, Table
<1> QED BY <1>2 DEF Shape, Arrays, Table, Distinct

(* Every step keeps what ht_foreach has passed.                            *)
LEMMA PassingStep ==
  ASSUME Shape, Passing, [Next]_vars
  PROVE  Passing'
<1>0. /\ buckets \in Index /\ Slots(buckets) \subseteq Nat /\ i \in Nat /\ pos \in Nat \ {0}
      /\ visited \in Seq(Key) /\ nodes \in [Slots(buckets) -> Seq(Node)]
  BY Slotted DEF Shape, Scalars, Arrays, Table
<1>1. ASSUME op' # "foreach" PROVE Passing'
  BY <1>1 DEF Passing
<1>2. CASE ForeachBegin
  <2>1. /\ buckets' = buckets /\ nodes' = nodes /\ i' = 0 /\ pos' = 1 /\ visited' = << >>
    BY <1>2 DEF ForeachBegin, Quiet, table, Shape, Busy
  <2>2. \A s \in Slots(buckets') : \A p \in DOMAIN nodes'[s] : ~Passed(s, p)'
    BY <1>0, <2>1 DEF Passed
  <2>3. DOMAIN visited' = {}
    BY <2>1
  <2> QED BY <2>2, <2>3 DEF Passing
<1>3. CASE ForeachVisit
  <2> DEFINE x == nodes[i][pos].key
  <2>1. /\ op = "foreach" /\ i \in Slots(buckets) /\ pos \in DOMAIN nodes[i]
        /\ visited' = Append(visited, x) /\ pos' = pos + 1 /\ i' = i
        /\ buckets' = buckets /\ nodes' = nodes
    BY <1>3 DEF ForeachVisit, AtNode, table
  <2>2. ASSUME NEW s \in Slots(buckets), NEW p \in DOMAIN nodes[s]
        PROVE  Passed(s, p)' <=> Passed(s, p) \/ (s = i /\ p = pos)
    <3>1. s \in Nat /\ p \in Nat
      BY <1>0
    <3> QED BY <1>0, <2>1, <3>1 DEF Passed
  <2>3. nodes[i][pos] \in Node
    BY <1>0, <2>1
  <2>4. x \in Key
    BY <2>3, NodeForm
  <2> DEFINE n == Len(visited)
  <2>5. /\ n \in Nat /\ DOMAIN visited = 1 .. n /\ DOMAIN visited' = 1 .. (n + 1)
        /\ visited'[n + 1] = x /\ \A q \in 1 .. n : visited'[q] = visited[q]
    BY <1>0, <2>1, <2>4
  <2>6. /\ \A q \in DOMAIN visited' : q \in DOMAIN visited \/ q = n + 1
        /\ \A q \in DOMAIN visited : q \in DOMAIN visited' /\ visited'[q] = visited[q]
        /\ n + 1 \in DOMAIN visited' /\ n + 1 \notin DOMAIN visited
    BY <2>5
  <2>7. \A q \in DOMAIN visited : visited[q] # x
    <3> SUFFICES ASSUME NEW q \in DOMAIN visited, visited[q] = x PROVE FALSE
      OBVIOUS
    <3>1. PICK s \in Slots(buckets) : \E p \in DOMAIN nodes[s] :
              Passed(s, p) /\ visited[q] = nodes[s][p].key
      BY <2>1 DEF Passing
    <3>2. PICK p \in DOMAIN nodes[s] : Passed(s, p) /\ visited[q] = nodes[s][p].key
      BY <3>1
    <3>3. s = i /\ p = pos
      BY <2>1, <3>2, OnePlace, ZenonT(30)
    <3> QED BY <1>0, <3>2, <3>3 DEF Passed
  <2> HIDE DEF x, n
  <2>8. \A q \in DOMAIN visited' : \E s \in Slots(buckets) : \E p \in DOMAIN nodes[s] :
            Passed(s, p)' /\ visited'[q] = nodes[s][p].key
    <3> TAKE q \in DOMAIN visited'
    <3>1. CASE q = n + 1
      <4>1. visited'[q] = nodes[i][pos].key
        BY <2>5, <3>1 DEF x
      <4> QED BY <2>1, <2>2, <4>1
    <3>2. CASE q \in DOMAIN visited
      <4>1. PICK s \in Slots(buckets) : \E p \in DOMAIN nodes[s] :
                Passed(s, p) /\ visited[q] = nodes[s][p].key
        BY <2>1, <3>2 DEF Passing
      <4> QED BY <2>2, <2>6, <3>2, <4>1
    <3> QED BY <2>6, <3>1, <3>2
  <2>9. \A s \in Slots(buckets) : \A p \in DOMAIN nodes[s] :
            Passed(s, p)' => \E q \in DOMAIN visited' : visited'[q] = nodes[s][p].key
    <3> SUFFICES ASSUME NEW s \in Slots(buckets), NEW p \in DOMAIN nodes[s], Passed(s, p)'
                 PROVE  \E q \in DOMAIN visited' : visited'[q] = nodes[s][p].key
      OBVIOUS
    <3>1. CASE Passed(s, p)
      <4>1. PICK q \in DOMAIN visited : visited[q] = nodes[s][p].key
        BY <2>1, <3>1 DEF Passing
      <4> QED BY <2>6, <4>1
    <3>2. CASE s = i /\ p = pos
      BY <2>5, <2>6, <3>2 DEF x
    <3> QED BY <2>2, <3>1, <3>2
  <2>10. \A q, r \in DOMAIN visited' : visited'[q] = visited'[r] => q = r
    BY <2>1, <2>5, <2>6, <2>7 DEF Passing
  <2> QED BY <2>1, <2>8, <2>9, <2>10 DEF Passing
<1>4. CASE ForeachNextBucket
  <2>1. /\ op = "foreach" /\ i \in Slots(buckets) /\ pos \notin DOMAIN nodes[i]
        /\ i' = i + 1 /\ pos' = 1 /\ visited' = visited /\ buckets' = buckets /\ nodes' = nodes
    BY <1>4 DEF ForeachNextBucket, table
  <2>2. ASSUME NEW s \in Slots(buckets), NEW p \in DOMAIN nodes[s]
        PROVE  Passed(s, p)' <=> Passed(s, p)
    <3>1. s \in Nat /\ p \in Nat \ {0} /\ (s = i => p < pos)
      BY <1>0, <2>1
    <3> QED BY <1>0, <2>1, <3>1 DEF Passed
  <2> QED BY <2>1, <2>2 DEF Passing
<1>5. CASE UNCHANGED vars
  BY <1>5 DEF vars, table, Passing, Passed
<1>6. CASE \E k \in Key : Delete(k) \/ \E v \in Value : Set(k, v)
  BY <1>1, <1>6 DEF Delete, Set, Quiet
<1>7. CASE Adjust
  BY <1>1, <1>7 DEF Adjust, AdjustBegin, AdjustReturn, RehashNode, RehashNextBucket, RehashEnd,
     Shape, Busy
<1>8. CASE PurgeBegin \/ PurgeNode \/ PurgeNextBucket \/ PurgeEnd \/ FreeEnd \/ ForeachStop \/ ForeachEnd
  BY <1>1, <1>8 DEF PurgeBegin, PurgeNode, PurgeNextBucket, PurgeEnd, FreeEnd, ForeachStop, ForeachEnd
<1> QED BY <1>2, <1>3, <1>4, <1>5, <1>6, <1>7, <1>8 DEF Next, Internal

(* When ht_foreach returns 1 it has passed every key to body exactly once  *)
(* (hashtable.c:372-393).                                                  *)
THEOREM TableForeachExact == Spec => []ForeachExact
<1>1. Init => Passing
  BY DEF Init, Passing
<1>2. Shape /\ Passing => ForeachExact
  <2> SUFFICES ASSUME Shape, Passing, op = "foreach", i \notin Slots(buckets)
               PROVE  /\ Range(visited) = {n.key : n \in AllNodes}
                      /\ Len(visited) = Cardinality(Range(visited))
    BY DEF ForeachExact
  <2>1. /\ buckets \in Index /\ visited \in Seq(Key) /\ i \in Nat /\ phase = "none"
        /\ nodes \in [Slots(buckets) -> Seq(Node)]
    BY DEF Shape, Scalars, Busy, Arrays, Table
  <2>2. \A s \in Slots(buckets) : \A p : Passed(s, p)
    BY <2>1, Slotted DEF Passed
  <2>3. AllNodes = NodesOf(nodes)
    BY <2>1, Counts DEF AllNodes
  <2>4. \A x : x \in {n.key : n \in AllNodes} <=>
            \E s \in Slots(buckets) : \E p \in DOMAIN nodes[s] : x = nodes[s][p].key
    BY <2>1, <2>3, NodesOfIn DEF Range
  <2>5. \A x : x \in Range(visited) <=> \E q \in DOMAIN visited : x = visited[q]
    BY DEF Range
  <2>6. ASSUME NEW x PROVE x \in Range(visited) <=> x \in {n.key : n \in AllNodes}
    <3>1. /\ \A q \in DOMAIN visited : \E s \in Slots(buckets) : \E p \in DOMAIN nodes[s] :
                visited[q] = nodes[s][p].key
          /\ \A s \in Slots(buckets) : \A p \in DOMAIN nodes[s] :
                \E q \in DOMAIN visited : visited[q] = nodes[s][p].key
      BY <2>2 DEF Passing
    <3>2. ASSUME x \in Range(visited) PROVE x \in {n.key : n \in AllNodes}
      <4>1. PICK q \in DOMAIN visited : x = visited[q]
        BY <2>5, <3>2
      <4> QED BY <2>4, <3>1, <4>1
    <3>3. ASSUME x \in {n.key : n \in AllNodes} PROVE x \in Range(visited)
      <4>1. PICK s \in Slots(buckets) : \E p \in DOMAIN nodes[s] : x = nodes[s][p].key
        BY <2>4, <3>3
      <4>2. PICK p \in DOMAIN nodes[s] : x = nodes[s][p].key
        BY <4>1
      <4>3. PICK q \in DOMAIN visited : visited[q] = nodes[s][p].key
        BY <3>1
      <4> QED BY <2>5, <4>2, <4>3
    <3> QED BY <3>2, <3>3
  <2>7. visited \in Bijection(1 .. Len(visited), Range(visited))
    <3>1. DOMAIN visited = 1 .. Len(visited) /\ visited \in [1 .. Len(visited) -> Range(visited)]
      BY <2>1 DEF Range
    <3>2. \A q, r \in 1 .. Len(visited) : visited[q] = visited[r] => q = r
      BY <3>1 DEF Passing
    <3>3. \A x \in Range(visited) : \E q \in 1 .. Len(visited) : visited[q] = x
      BY <3>1 DEF Range
    <3> QED BY <3>1, <3>2, <3>3 DEF Bijection, Injection, Surjection, IsInjective
  <2>8. ExistsBijection(1 .. Len(visited), Range(visited))
    BY <2>7 DEF ExistsBijection
  <2>9. Len(visited) \in Nat
    BY <2>1
  <2>10. Cardinality(Range(visited)) = Len(visited)
    BY <2>8, <2>9, FS_CountingElements, Zenon
  <2> QED BY <2>6, <2>10
<1> QED BY <1>1, <1>2, ShapeAlways, PassingStep, PTL DEF Spec
=============================================================================
