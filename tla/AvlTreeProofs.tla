--------------------------- MODULE AvlTreeProofs ---------------------------
(***************************************************************************)
(* Proofs about AvlTree.                                                   *)
(***************************************************************************)
EXTENDS AvlTree, WellFoundedInduction, FiniteSetTheorems, TLAPS

----------------------------------------------------------------------------
(* Natural numbers.                                                        *)

(* Every nonempty set of natural numbers has a least element.  A proof by  *)
(* induction takes the least counterexample.                               *)
LEMMA LeastNat ==
  ASSUME NEW S, S \subseteq Nat, S # {}
  PROVE  \E m \in S : \A n \in S : m <= n
<1>1. IsWellFoundedOn(OpToRel(<, Nat), Nat)
  BY NatLessThanWellFounded, Zenon
<1>2. PICK m \in S : \A n \in S : ~(<<n, m>> \in OpToRel(<, Nat))
  BY <1>1, WFMin, Zenon
<1>3. \A n \in S : ~(n < m)
  BY <1>2 DEF OpToRel
<1> QED BY <1>3

----------------------------------------------------------------------------
N     == Cardinality(Node)
Dirs  == {LEFT, RIGHT}

(* The number of nodes.                                                    *)
LEMMA NType == N \in Nat /\ IsFiniteSet(Node) /\ Node \subseteq Int /\ Null \notin Node
BY AvlAssumption, FS_CardinalityType DEF N

(* The fields of a memory.                                                 *)
LEMMA Fields ==
  ASSUME NEW m \in Memory
  PROVE  /\ m.root \in Pointer
         /\ m.child \in [Node -> [Dirs -> Pointer]]
         /\ m.balance \in [Node -> Int]
         /\ m.alive \in BOOLEAN
         /\ m.past \in SUBSET {"repair", "removal"}
         /\ \A n \in Node, d \in Dirs : m.child[n][d] \in Pointer
BY DEF Memory, Dirs

----------------------------------------------------------------------------
(* Reach(m, p) is the least set that holds p and the children of its       *)
(* nodes.                                                                  *)

Closed(m, C) == \A n \in C, d \in Dirs : m.child[n][d] \in C \cup {Null}

IsNear(m, p, n, f) ==
    f = [k \in 0 .. n |-> IF k = 0 THEN {p} \ {Null} ELSE Grown(m, f[k - 1])]

(* The recursive definition of Near has a solution.                        *)
LEMMA NearExists ==
  ASSUME NEW m, NEW p, NEW n \in Nat
  PROVE  \E f : IsNear(m, p, n, f)
<1> DEFINE S == {i \in Nat : ~ \E f : IsNear(m, p, i, f)}
<1>1. CASE S = {}
  BY <1>1
<1>2. CASE S # {}
  <2>1. PICK i \in S : \A k \in S : i <= k
    BY <1>2, LeastNat, Zenon
  <2>2. i # 0
    <3> DEFINE f == [k \in 0 .. 0 |-> {p} \ {Null}]
    <3>1. IsNear(m, p, 0, f)
      BY DEF IsNear
    <3> QED BY <2>1, <3>1
  <2>3. i \in Nat /\ i - 1 \in Nat /\ i - 1 \notin S
    BY <2>1, <2>2
  <2>4. PICK g : IsNear(m, p, i - 1, g)
    BY <2>3
  <2> DEFINE f == [k \in 0 .. i |-> IF k = 0 THEN {p} \ {Null} ELSE Grown(m, g[k - 1])]
  <2>5. \A k \in 0 .. (i - 1) : g[k] = IF k = 0 THEN {p} \ {Null} ELSE Grown(m, g[k - 1])
    BY <2>3, <2>4 DEF IsNear
  <2>6. \A k \in 0 .. (i - 1) : f[k] = g[k]
    <3>1. \A k \in 0 .. (i - 1) : k \in 0 .. i
      BY <2>3
    <3> QED BY <2>5, <3>1
  <2>7. \A k \in 0 .. i : f[k] = IF k = 0 THEN {p} \ {Null} ELSE Grown(m, f[k - 1])
    <3>1. \A k \in 0 .. i : k # 0 => k - 1 \in 0 .. (i - 1)
      BY <2>3
    <3> QED BY <2>6, <3>1
  <2> HIDE DEF S
  <2>8. IsNear(m, p, i, f)
    <3>1. DOMAIN f = 0 .. i
      OBVIOUS
    <3>2. f = [k \in 0 .. i |-> f[k]]
      BY <3>1
    <3> HIDE DEF f
    <3>3. [k \in 0 .. i |-> f[k]]
          = [k \in 0 .. i |-> IF k = 0 THEN {p} \ {Null} ELSE Grown(m, f[k - 1])]
      BY <2>7
    <3> QED BY <3>2, <3>3 DEF IsNear
  <2> QED BY <2>1, <2>8 DEF S
<1> QED BY <1>1, <1>2

(* So Near is that solution.                                               *)
LEMMA NearSteps ==
  ASSUME NEW m, NEW p
  PROVE  /\ Near(m, p)[0] = {p} \ {Null}
         /\ \A k \in 1 .. N : Near(m, p)[k] = Grown(m, Near(m, p)[k - 1])
<1>1. N \in Nat
  BY NType
<1>2. \E f : f = [k \in 0 .. N |-> IF k = 0 THEN {p} \ {Null} ELSE Grown(m, f[k - 1])]
  <2>1. PICK f : IsNear(m, p, N, f)
    BY <1>1, NearExists, Zenon
  <2> QED BY <2>1 DEF IsNear
<1>3. Near(m, p) = [k \in 0 .. N |-> IF k = 0 THEN {p} \ {Null} ELSE Grown(m, Near(m, p)[k - 1])]
  BY <1>2 DEF Near, N
<1> DEFINE W == Near(m, p)
<1> HIDE DEF W
<1>4. W = [k \in 0 .. N |-> IF k = 0 THEN {p} \ {Null} ELSE Grown(m, W[k - 1])]
  BY <1>3 DEF W
<1>5. \A k \in 0 .. N : W[k] = IF k = 0 THEN {p} \ {Null} ELSE Grown(m, W[k - 1])
  BY <1>4
<1>6. 0 \in 0 .. N /\ \A k \in 1 .. N : k \in 0 .. N /\ k # 0
  BY <1>1
<1> QED BY <1>5, <1>6 DEF W

(* No closed set with p in it is smaller.                                  *)
LEMMA ReachLeast ==
  ASSUME NEW m, NEW C, Closed(m, C), NEW p \in C \cup {Null}
  PROVE  \A k \in 0 .. N : Near(m, p)[k] \subseteq C
<1> DEFINE W == Near(m, p)
           S == {k \in 0 .. N : ~(W[k] \subseteq C)}
<1>1. W[0] = {p} \ {Null} /\ \A k \in 1 .. N : W[k] = Grown(m, W[k - 1])
  BY NearSteps
<1>2. N \in Nat
  BY NType
<1> HIDE DEF W
<1>3. CASE S = {}
  BY <1>3 DEF W
<1>4. CASE S # {}
  <2>1. PICK i \in S : \A j \in S : i <= j
    <3>1. S \subseteq Nat
      BY <1>2
    <3> QED BY <1>4, <3>1, LeastNat, Zenon
  <2>2. i # 0
    BY <1>1, <2>1
  <2>3. i \in 1 .. N /\ i - 1 \in 0 .. N /\ ~(i <= i - 1)
    BY <1>2, <2>1, <2>2
  <2>4. W[i - 1] \subseteq C
    BY <2>1, <2>3
  <2>5. W[i] \subseteq C
    BY <1>1, <2>3, <2>4 DEF Grown, Closed, Dirs
  <2> QED BY <2>1, <2>5
<1> QED BY <1>3, <1>4

(* A step that adds nothing adds nothing later.                            *)
LEMMA NearSettles ==
  ASSUME NEW m, NEW p, NEW i \in 1 .. N, Near(m, p)[i] = Near(m, p)[i - 1]
  PROVE  Reach(m, p) = Near(m, p)[i] /\ Grown(m, Reach(m, p)) = Reach(m, p)
<1> DEFINE W == Near(m, p)
           S == {k \in i .. N : W[k] # W[i]}
<1>1. \A k \in 1 .. N : W[k] = Grown(m, W[k - 1])
  BY NearSteps
<1>2. N \in Nat
  BY NType
<1>3. W[i] = W[i - 1]
  OBVIOUS
<1> HIDE DEF W
<1>4. Grown(m, W[i]) = W[i]
  BY <1>1, <1>3
<1>5. S = {}
  <2> SUFFICES ASSUME S # {} PROVE FALSE
    OBVIOUS
  <2>1. PICK k \in S : \A j \in S : k <= j
    <3>1. S \subseteq Nat
      BY <1>2
    <3> QED BY <3>1, LeastNat, Zenon
  <2>2. k \in i .. N /\ W[k] # W[i] /\ k # i
    BY <2>1
  <2>3. k - 1 \in i .. N /\ k \in 1 .. N /\ ~(k <= k - 1)
    BY <1>2, <2>2
  <2>4. W[k - 1] = W[i]
    BY <2>1, <2>3
  <2>5. W[k] = Grown(m, W[i])
    BY <1>1, <2>3, <2>4
  <2> QED BY <1>4, <2>2, <2>5
<1>6. N \in i .. N
  BY <1>2
<1>7. W[N] = W[i]
  BY <1>5, <1>6
<1> QED BY <1>4, <1>7 DEF W, Reach, N

(* Some step adds nothing: there are not nodes enough.                     *)
LEMMA NearSettlesSomewhere ==
  ASSUME NEW m \in Memory, NEW p \in Node
  PROVE  \E i \in 1 .. N : Near(m, p)[i] = Near(m, p)[i - 1]
<1> SUFFICES ASSUME \A i \in 1 .. N : Near(m, p)[i] # Near(m, p)[i - 1] PROVE FALSE
  OBVIOUS
<1> DEFINE W == Near(m, p)
           S == {k \in 0 .. N : ~(Cardinality(W[k]) >= k + 1)}
<1>1. W[0] = {p} \ {Null} /\ \A k \in 1 .. N : W[k] = Grown(m, W[k - 1])
  BY NearSteps
<1>2. N \in Nat /\ IsFiniteSet(Node) /\ Null \notin Node
  BY NType
<1>3. \A k \in 0 .. N : W[k] \subseteq Node
  <2>1. Closed(m, Node) /\ p \in Node \cup {Null}
    BY Fields DEF Closed, Pointer
  <2> QED BY <2>1, ReachLeast
<1>4. \A i \in 1 .. N : W[i] # W[i - 1]
  OBVIOUS
<1> HIDE DEF W
<1>5. \A k \in 0 .. N : IsFiniteSet(W[k]) /\ Cardinality(W[k]) \in Nat /\ Cardinality(W[k]) <= N
  BY <1>2, <1>3, FS_Subset, FS_CardinalityType DEF N
<1>6. S = {}
  <2> SUFFICES ASSUME S # {} PROVE FALSE
    OBVIOUS
  <2>1. PICK k \in S : \A j \in S : k <= j
    <3>1. S \subseteq Nat
      BY <1>2
    <3> QED BY <3>1, LeastNat, Zenon
  <2>2. k \in 0 .. N /\ ~(Cardinality(W[k]) >= k + 1)
    BY <2>1
  <2>3. CASE k = 0
    <3>1. W[0] = {p}
      BY <1>1, <1>2
    <3>2. Cardinality({p}) = 1
      BY FS_Singleton
    <3> QED BY <2>2, <2>3, <3>1, <3>2
  <2>4. CASE k # 0
    <3>1. k \in 1 .. N /\ k - 1 \in 0 .. N /\ ~(k <= k - 1)
      BY <1>2, <2>2, <2>4
    <3> DEFINE a == Cardinality(W[k - 1])
               b == Cardinality(W[k])
    <3>2. a >= (k - 1) + 1
      BY <2>1, <3>1
    <3>3. W[k - 1] \subseteq W[k] /\ W[k - 1] # W[k]
      BY <1>1, <1>4, <3>1 DEF Grown
    <3>4. a <= b /\ a # b /\ a \in Nat /\ b \in Nat
      BY <1>5, <2>2, <3>1, <3>3, FS_Subset
    <3>5. ~(b >= k + 1) /\ k \in Nat
      BY <1>2, <2>2
    <3> HIDE DEF a, b
    <3> QED BY <3>2, <3>4, <3>5
  <2> QED BY <2>3, <2>4
<1>7. N \in 0 .. N
  BY <1>2
<1>8. Cardinality(W[N]) >= N + 1 /\ Cardinality(W[N]) <= N /\ Cardinality(W[N]) \in Nat
  BY <1>5, <1>6, <1>7
<1> QED BY <1>2, <1>8

(* What p leads to: p itself, the children of all, and no more.            *)
LEMMA ReachIs ==
  ASSUME NEW m \in Memory, NEW p \in Pointer
  PROVE  /\ Reach(m, p) \subseteq Node
         /\ p # Null => p \in Reach(m, p)
         /\ Closed(m, Reach(m, p))
         /\ \A C : Closed(m, C) /\ p \in C \cup {Null} => Reach(m, p) \subseteq C
         /\ Reach(m, Null) = {}
<1>1. N \in Nat /\ N \in 0 .. N /\ 0 \in 0 .. N /\ Null \notin Node
  BY NType
<1>2. ASSUME NEW q \in Pointer, NEW C, Closed(m, C), q \in C \cup {Null}
      PROVE  Reach(m, q) \subseteq C
  BY <1>1, <1>2, ReachLeast DEF Reach, N
<1>3. Closed(m, Node) /\ \A q \in Pointer : q \in Node \cup {Null}
  BY Fields DEF Closed, Pointer
<1>4. Reach(m, p) \subseteq Node
  BY <1>2, <1>3
<1>5. Reach(m, Null) = {}
  <2>1. Closed(m, {}) /\ Null \in {} \cup {Null} /\ Null \in Pointer
    BY DEF Closed, Pointer
  <2> QED BY <1>2, <2>1
<1>6. CASE p = Null
  BY <1>2, <1>4, <1>5, <1>6 DEF Closed
<1>7. CASE p # Null
  <2>1. p \in Node
    BY <1>7 DEF Pointer
  <2>2. PICK i \in 1 .. N : Near(m, p)[i] = Near(m, p)[i - 1]
    BY <2>1, NearSettlesSomewhere
  <2>3. Grown(m, Reach(m, p)) = Reach(m, p)
    BY <2>2, NearSettles
  <2>4. Closed(m, Reach(m, p))
    BY <2>3 DEF Closed, Grown, Dirs
  <2>5. p \in Reach(m, p)
    <3> DEFINE W == Near(m, p)
               S == {k \in 0 .. N : p \notin W[k]}
    <3>1. W[0] = {p} \ {Null} /\ \A k \in 1 .. N : W[k] = Grown(m, W[k - 1])
      BY NearSteps
    <3> HIDE DEF W
    <3>2. S = {}
      <4> SUFFICES ASSUME S # {} PROVE FALSE
        OBVIOUS
      <4>1. PICK k \in S : \A j \in S : k <= j
        <5>1. S \subseteq Nat
          BY <1>1
        <5> QED BY <5>1, LeastNat, Zenon
      <4>2. k \in 0 .. N /\ p \notin W[k]
        BY <4>1
      <4>3. k # 0
        BY <1>7, <3>1, <4>2
      <4>4. k \in 1 .. N /\ k - 1 \in 0 .. N /\ ~(k <= k - 1)
        BY <1>1, <4>2, <4>3
      <4>5. p \in W[k - 1]
        BY <4>1, <4>4
      <4> QED BY <3>1, <4>2, <4>4, <4>5 DEF Grown
    <3>3. p \in W[N]
      BY <1>1, <3>2
    <3> QED BY <3>3 DEF W, Reach, N
  <2> QED BY <1>2, <1>4, <1>5, <2>4, <2>5
<1> QED BY <1>6, <1>7

(* NULL leads nowhere.                                                     *)
LEMMA ReachNull ==
  ASSUME NEW m \in Memory
  PROVE  Reach(m, Null) = {}
<1>1. Null \in Pointer
  BY DEF Pointer
<1> QED BY <1>1, ReachIs

(* What a node leads to.                                                   *)
LEMMA ReachBelow ==
  ASSUME NEW m \in Memory, NEW p \in Node
  PROVE  /\ \A d \in Dirs : Reach(m, m.child[p][d]) \subseteq Reach(m, p)
         /\ \A k \in Reach(m, p) : k = p \/ \E d \in Dirs : k \in Reach(m, m.child[p][d])
<1> DEFINE R(d) == Reach(m, m.child[p][d])
           C    == {p} \cup R(LEFT) \cup R(RIGHT)
<1>1. p \in Pointer /\ p # Null /\ \A d \in Dirs : m.child[p][d] \in Pointer
  BY Fields, NType DEF Pointer
<1>2. LEFT \in Dirs /\ RIGHT \in Dirs /\ \A d \in Dirs : d = LEFT \/ d = RIGHT
  BY DEF Dirs
<1>3. Closed(m, Reach(m, p)) /\ p \in Reach(m, p)
  BY <1>1, ReachIs
<1>4. ASSUME NEW d \in Dirs PROVE R(d) \subseteq Reach(m, p)
  <2>1. m.child[p][d] \in Reach(m, p) \cup {Null}
    BY <1>3 DEF Closed
  <2> QED BY <1>1, <1>3, <2>1, ReachIs
<1>5. ASSUME NEW d \in Dirs PROVE Closed(m, R(d)) /\ m.child[p][d] \in R(d) \cup {Null}
  BY <1>1, ReachIs
<1> HIDE DEF R
<1>6. Closed(m, C)
  <2> SUFFICES ASSUME NEW n \in C, NEW d \in Dirs PROVE m.child[n][d] \in C \cup {Null}
    BY DEF Closed
  <2>1. CASE n = p
    BY <1>2, <1>5, <2>1
  <2>2. CASE n \in R(LEFT)
    BY <1>2, <1>5, <2>2 DEF Closed
  <2>3. CASE n \in R(RIGHT)
    BY <1>2, <1>5, <2>3 DEF Closed
  <2> QED BY <2>1, <2>2, <2>3
<1>7. Reach(m, p) \subseteq C
  BY <1>1, <1>6, ReachIs
<1> QED BY <1>2, <1>4, <1>7 DEF R

(* What one leads to, the other does.                                      *)
LEMMA ReachWithin ==
  ASSUME NEW m \in Memory, NEW p \in Pointer, NEW q \in Reach(m, p)
  PROVE  q \in Node /\ Reach(m, q) \subseteq Reach(m, p)
<1>1. Closed(m, Reach(m, p)) /\ q \in Node
  BY ReachIs
<1>2. q \in Pointer
  BY <1>1 DEF Pointer
<1> QED BY <1>1, <1>2, ReachIs

(* A node but the first has a parent.                                      *)
LEMMA HasParent ==
  ASSUME NEW m \in Memory, NEW p \in Node, NEW q \in Reach(m, p), q # p
  PROVE  \E w \in Reach(m, p), d \in Dirs : m.child[w][d] = q
<1> SUFFICES ASSUME \A w \in Reach(m, p), d \in Dirs : m.child[w][d] # q PROVE FALSE
  OBVIOUS
<1> DEFINE C == Reach(m, p) \ {q}
<1>1. p \in Pointer /\ p # Null
  BY NType DEF Pointer
<1>2. Closed(m, Reach(m, p)) /\ p \in Reach(m, p)
  BY <1>1, ReachIs
<1>3. Closed(m, C) /\ p \in C \cup {Null}
  BY <1>2 DEF Closed
<1>4. Reach(m, p) \subseteq C
  BY <1>1, <1>3, ReachIs, Zenon
<1> QED BY <1>4

----------------------------------------------------------------------------
(* Search trees.                                                           *)

Live(m)    == Reach(m, m.root)
On(d, k, n) == IF d = LEFT THEN k < n ELSE k > n

Ordered(m) ==
    \A n \in Live(m), d \in Dirs : \A k \in Reach(m, m.child[n][d]) : On(d, k, n)

(* A node is on one side of another.                                       *)
LEMMA OneSide ==
  ASSUME NEW n \in Node, NEW k \in Node
  PROVE  /\ \A d \in Dirs : ~On(d, n, n)
         /\ \A d, e \in Dirs : On(d, k, n) /\ On(e, k, n) => d = e
         /\ k # n => Side(n, k) \in Dirs /\ On(Side(n, k), k, n)
         /\ k # n => \A d \in Dirs : On(d, k, n) => d = Side(n, k)
<1>1. n \in Int /\ k \in Int
  BY NType
<1> QED BY <1>1 DEF On, Dirs, LEFT, RIGHT, Side

(* What is live is nodes, with their children.                             *)
LEMMA LiveIs ==
  ASSUME NEW m \in Memory
  PROVE  /\ Live(m) \subseteq Node /\ Closed(m, Live(m))
         /\ m.root \in Live(m) \cup {Null}
         /\ \A n \in Live(m) : n \in Node /\ Reach(m, n) \subseteq Live(m) /\ n \in Reach(m, n)
         /\ \A n \in Live(m), d \in Dirs :
               /\ m.child[n][d] \in Live(m) \cup {Null} /\ m.child[n][d] \in Pointer
               /\ Reach(m, m.child[n][d]) \subseteq Live(m)
<1>1. m.root \in Pointer
  BY Fields
<1>2. Live(m) \subseteq Node /\ Closed(m, Live(m)) /\ m.root \in Live(m) \cup {Null}
  BY <1>1, ReachIs DEF Live
<1>3. ASSUME NEW n \in Live(m) PROVE n \in Node /\ Reach(m, n) \subseteq Live(m) /\ n \in Reach(m, n)
  <2>1. n \in Node /\ Reach(m, n) \subseteq Live(m)
    BY <1>1, ReachWithin DEF Live
  <2>2. n \in Pointer /\ n # Null
    BY <2>1, NType DEF Pointer
  <2> QED BY <2>1, <2>2, ReachIs
<1>4. ASSUME NEW n \in Live(m), NEW d \in Dirs
      PROVE  /\ m.child[n][d] \in Live(m) \cup {Null} /\ m.child[n][d] \in Pointer
             /\ Reach(m, m.child[n][d]) \subseteq Live(m)
  <2>1. m.child[n][d] \in Live(m) \cup {Null}
    BY <1>2 DEF Closed
  <2>2. n \in Node /\ Reach(m, n) \subseteq Live(m)
    BY <1>3
  <2>3. m.child[n][d] \in Pointer
    BY <2>2, Fields
  <2>4. Reach(m, m.child[n][d]) \subseteq Reach(m, n)
    BY <2>2, ReachBelow
  <2> QED BY <2>1, <2>2, <2>3, <2>4
<1> QED BY <1>2, <1>3, <1>4

(* No node is below itself.                                                *)
LEMMA NotBelowItself ==
  ASSUME NEW m \in Memory, Ordered(m), NEW n \in Live(m), NEW d \in Dirs
  PROVE  n \notin Reach(m, m.child[n][d])
BY LiveIs, OneSide DEF Ordered

(* No node is on both sides of another.                                    *)
LEMMA SidesApart ==
  ASSUME NEW m \in Memory, Ordered(m), NEW n \in Live(m), NEW d \in Dirs, NEW e \in Dirs,
         NEW k \in Reach(m, m.child[n][d]), k \in Reach(m, m.child[n][e])
  PROVE  d = e
<1>1. n \in Node /\ k \in Node
  BY LiveIs
<1>2. On(d, k, n) /\ On(e, k, n)
  BY DEF Ordered
<1> QED BY <1>1, <1>2, OneSide

(* Induction from the leaves: of some live nodes, one has none of them     *)
(* below it.                                                               *)
LEMMA Lowest ==
  ASSUME NEW m \in Memory, Ordered(m), NEW T \in SUBSET Live(m), T # {}
  PROVE  \E p \in T : \A d \in Dirs : Reach(m, m.child[p][d]) \cap T = {}
<1> DEFINE S == {Cardinality(Reach(m, p)) : p \in T}
<1>1. \A p \in T : IsFiniteSet(Reach(m, p)) /\ Cardinality(Reach(m, p)) \in Nat
  <2> SUFFICES ASSUME NEW p \in T
               PROVE IsFiniteSet(Reach(m, p)) /\ Cardinality(Reach(m, p)) \in Nat
    OBVIOUS
  <2>1. Reach(m, p) \subseteq Node
    BY LiveIs
  <2> QED BY <2>1, NType, FS_Subset, FS_CardinalityType
<1>2. S \subseteq Nat /\ S # {}
  BY <1>1
<1>3. PICK s \in S : \A t \in S : s <= t
  BY <1>2, LeastNat, Zenon
<1>4. PICK p \in T : s = Cardinality(Reach(m, p))
  BY <1>3
<1>5. ASSUME NEW d \in Dirs, NEW q \in Reach(m, m.child[p][d]), q \in T PROVE FALSE
  <2>1. p \in Live(m) /\ p \in Node /\ p \in Reach(m, p) /\ m.child[p][d] \in Pointer
    BY LiveIs
  <2>2. Reach(m, q) \subseteq Reach(m, m.child[p][d])
    BY <2>1, ReachWithin
  <2>3. Reach(m, q) \subseteq Reach(m, p)
    BY <2>1, <2>2, ReachBelow
  <2>4. p \notin Reach(m, q)
    BY <2>1, <2>2, NotBelowItself
  <2> DEFINE a == Cardinality(Reach(m, p))
             b == Cardinality(Reach(m, q))
  <2>5. a \in Nat /\ b \in Nat /\ a <= b
    BY <1>1, <1>3, <1>4, <1>5
  <2>6. b <= a /\ (a = b => Reach(m, p) = Reach(m, q))
    BY <1>1, <2>3, FS_Subset
  <2>7. a # b
    BY <2>1, <2>4, <2>6
  <2> HIDE DEF a, b
  <2> QED BY <2>5, <2>6, <2>7
<1> QED BY <1>5

(* One pointer leads to a node.                                            *)
LEMMA UniqueParent ==
  ASSUME NEW m \in Memory, Ordered(m), NEW w \in Live(m), NEW x \in Live(m),
         NEW e \in Dirs, NEW d \in Dirs, m.child[w][e] = m.child[x][d], m.child[x][d] # Null
  PROVE  w = x /\ e = d
<1> DEFINE y == m.child[x][d]
           T == {p \in Live(m) : w \in Reach(m, p) /\ x \in Reach(m, p)}
<1>1. y \in Node /\ y \in Pointer /\ y = m.child[w][e] /\ y = m.child[x][d]
      /\ y \in Reach(m, y)
  BY LiveIs
<1>2. m.root \in T
  <2>1. m.root # Null
    <3>1. w \in Reach(m, m.root)
      BY DEF Live
    <3> QED BY <3>1, ReachIs, Fields
  <2> QED BY <2>1, LiveIs DEF Live
<1>3. PICK p \in T : \A f \in Dirs : Reach(m, m.child[p][f]) \cap T = {}
  BY <1>2, Lowest, Zenon
<1>4. p \in Live(m) /\ p \in Node /\ w \in Reach(m, p) /\ x \in Reach(m, p)
  BY <1>3, LiveIs
<1>5. /\ w = p \/ \E f \in Dirs : w \in Reach(m, m.child[p][f])
      /\ x = p \/ \E f \in Dirs : x \in Reach(m, m.child[p][f])
  BY <1>4, ReachBelow
<1>6. \A f \in Dirs : m.child[p][f] \in Pointer /\ Reach(m, m.child[p][f]) \subseteq Live(m)
  BY <1>4, LiveIs
<1>7. ASSUME NEW f \in Dirs, NEW v \in Live(m), NEW g \in Dirs, v \in Reach(m, m.child[p][f]),
             y = m.child[v][g]
      PROVE  y \in Reach(m, m.child[p][f])
  <2>1. Closed(m, Reach(m, m.child[p][f]))
    BY <1>6, ReachIs
  <2> QED BY <1>1, <1>7, <2>1, NType DEF Closed
<1>8. ASSUME NEW v \in Live(m), NEW g \in Dirs, y = m.child[v][g], v \in Reach(m, y) PROVE FALSE
  BY <1>8, NotBelowItself
<1> HIDE DEF y
<1>9. CASE w = p /\ x = p
  <2>1. y \in Reach(m, m.child[p][e]) /\ y \in Reach(m, m.child[p][d])
    BY <1>1, <1>9
  <2>2. e = d
    BY <1>4, <2>1, SidesApart
  <2> QED BY <1>9, <2>2
<1>10. ASSUME w = p, NEW f \in Dirs, x \in Reach(m, m.child[p][f]) PROVE FALSE
  <2>1. y \in Reach(m, m.child[p][e]) /\ y \in Reach(m, m.child[p][f])
    BY <1>1, <1>7, <1>10
  <2>2. e = f
    BY <1>4, <2>1, SidesApart
  <2>3. x \in Reach(m, y)
    BY <1>1, <1>10, <2>2
  <2> QED BY <1>1, <1>8, <2>3
<1>11. ASSUME x = p, NEW f \in Dirs, w \in Reach(m, m.child[p][f]) PROVE FALSE
  <2>1. y \in Reach(m, m.child[p][d]) /\ y \in Reach(m, m.child[p][f])
    BY <1>1, <1>7, <1>11
  <2>2. d = f
    BY <1>4, <2>1, SidesApart
  <2>3. w \in Reach(m, y)
    BY <1>1, <1>11, <2>2
  <2> QED BY <1>1, <1>8, <2>3
<1>12. ASSUME NEW f \in Dirs, NEW g \in Dirs, w \in Reach(m, m.child[p][f]),
              x \in Reach(m, m.child[p][g])
       PROVE  FALSE
  <2>1. y \in Reach(m, m.child[p][f]) /\ y \in Reach(m, m.child[p][g])
    BY <1>1, <1>7, <1>12
  <2>2. f = g
    BY <1>4, <2>1, SidesApart
  <2> DEFINE q == m.child[p][f]
  <2>3. q # Null
    BY <1>12, ReachNull
  <2>4. q \in Reach(m, q) /\ q \in Live(m)
    BY <1>6, <2>3, ReachIs
  <2>5. q \in T
    BY <1>12, <2>2, <2>4
  <2> QED BY <1>3, <2>4, <2>5
<1> QED BY <1>5, <1>9, <1>10, <1>11, <1>12

(* A pointer from elsewhere into what a leads to is a pointer to a.        *)
LEMMA EntersAtTop ==
  ASSUME NEW m \in Memory, Ordered(m), NEW a \in Live(m), NEW w \in Live(m), NEW d \in Dirs,
         w \notin Reach(m, a), m.child[w][d] \in Reach(m, a)
  PROVE  m.child[w][d] = a
<1> SUFFICES ASSUME m.child[w][d] # a PROVE FALSE
  OBVIOUS
<1>1. a \in Node /\ Reach(m, a) \subseteq Live(m) /\ m.child[w][d] # Null
  BY LiveIs, NType
<1>2. PICK x \in Reach(m, a), e \in Dirs : m.child[x][e] = m.child[w][d]
  BY <1>1, HasParent
<1>3. w = x
  BY <1>1, <1>2, UniqueParent
<1> QED BY <1>2, <1>3

(* What is left of a search tree is one.                                   *)
LEMMA Shrunk ==
  ASSUME NEW m \in Memory, Ordered(m), NEW m2 \in Memory, NEW S \in SUBSET Live(m),
         Closed(m2, S), m2.root \in S \cup {Null},
         \A w \in S, d \in Dirs : m2.child[w][d] \in Reach(m, m.child[w][d]) \cup {Null}
  PROVE  Ordered(m2) /\ Live(m2) \subseteq S
<1>1. Live(m2) \subseteq S
  BY ReachIs, Fields DEF Live
<1>2. ASSUME NEW u \in S PROVE Reach(m2, u) \subseteq Reach(m, u)
  <2> DEFINE C == Reach(m, u) \cap S
  <2>1. u \in Live(m) /\ u \in Node /\ u \in Reach(m, u) /\ u \in Pointer /\ Reach(m, u) \subseteq Live(m)
    BY LiveIs DEF Pointer
  <2>2. Closed(m2, C)
    <3> SUFFICES ASSUME NEW w \in C, NEW d \in Dirs PROVE m2.child[w][d] \in C \cup {Null}
      BY DEF Closed
    <3>1. m2.child[w][d] \in S \cup {Null}
      BY DEF Closed
    <3>2. w \in Node /\ Reach(m, w) \subseteq Reach(m, u)
      BY <2>1, ReachWithin
    <3>3. Reach(m, m.child[w][d]) \subseteq Reach(m, w)
      BY <3>2, ReachBelow
    <3>4. m2.child[w][d] \in Reach(m, m.child[w][d]) \cup {Null}
      OBVIOUS
    <3> QED BY <3>1, <3>2, <3>3, <3>4
  <2>3. u \in C \cup {Null}
    BY <2>1
  <2>4. Reach(m2, u) \subseteq C
    BY <2>1, <2>2, <2>3, ReachIs, Zenon
  <2> QED BY <2>4
<1>3. ASSUME NEW n \in Live(m2), NEW d \in Dirs, NEW k \in Reach(m2, m2.child[n][d])
      PROVE  On(d, k, n)
  <2> DEFINE q == m2.child[n][d]
  <2>1. n \in S /\ n \in Live(m)
    BY <1>1
  <2>2. q # Null
    BY ReachNull
  <2>3. q \in S /\ q \in Reach(m, m.child[n][d])
    BY <2>1, <2>2 DEF Closed
  <2>4. k \in Reach(m, q)
    BY <1>2, <2>3
  <2>5. Reach(m, q) \subseteq Reach(m, m.child[n][d])
    BY <2>1, <2>3, LiveIs, ReachWithin
  <2> QED BY <2>1, <2>4, <2>5 DEF Ordered
<1> QED BY <1>1, <1>3 DEF Ordered

----------------------------------------------------------------------------
(* Memories with the same pointers.                                        *)

SameTree(m, r) == r.root = m.root /\ r.child = m.child

(* They have the same trees.                                               *)
LEMMA SameReach ==
  ASSUME NEW m \in Memory, NEW r \in Memory, r.child = m.child, NEW p \in Pointer
  PROVE  Reach(r, p) = Reach(m, p)
<1>1. \A C : Closed(r, C) <=> Closed(m, C)
  BY DEF Closed
<1>2. ASSUME NEW a \in Memory, NEW b \in Memory, \A C : Closed(a, C) => Closed(b, C)
      PROVE  Reach(b, p) \subseteq Reach(a, p)
  <2> DEFINE C == Reach(a, p)
  <2>1. Closed(a, C) /\ p \in C \cup {Null}
    BY ReachIs
  <2>2. Closed(b, C)
    BY <1>2, <2>1
  <2> HIDE DEF C
  <2>3. Reach(b, p) \subseteq C
    BY <2>1, <2>2, ReachIs, Zenon
  <2> QED BY <2>3 DEF C
<1>3. Reach(r, p) \subseteq Reach(m, p)
  BY <1>1, <1>2, Zenon
<1>4. Reach(m, p) \subseteq Reach(r, p)
  BY <1>1, <1>2, Zenon
<1> QED BY <1>3, <1>4

(* See SameReach.                                                          *)
LEMMA SameOrder ==
  ASSUME NEW m \in Memory, NEW r \in Memory, SameTree(m, r)
  PROVE  Live(r) = Live(m) /\ (Ordered(m) => Ordered(r))
<1>1. r.root = m.root /\ r.child = m.child
  BY DEF SameTree
<1>2. \A p \in Pointer : Reach(r, p) = Reach(m, p)
  BY <1>1, SameReach
<1>3. Live(r) = Live(m)
  BY <1>1, <1>2, Fields DEF Live
<1>4. ASSUME Ordered(m), NEW n \in Live(r), NEW d \in Dirs, NEW k \in Reach(r, r.child[n][d])
      PROVE  On(d, k, n)
  <2>1. n \in Live(m) /\ m.child[n][d] \in Pointer
    BY <1>3, LiveIs
  <2>2. k \in Reach(m, m.child[n][d])
    BY <1>1, <1>2, <2>1
  <2> QED BY <1>4, <2>1, <2>2 DEF Ordered
<1> QED BY <1>3, <1>4 DEF Ordered

(* A balance is no pointer, and neither is the end of the process.         *)
LEMMA SetBalance ==
  ASSUME NEW m \in Memory, NEW c \in Node, NEW b \in Int
  PROVE  /\ [m EXCEPT !.balance[c] = b] \in Memory
         /\ SameTree(m, [m EXCEPT !.balance[c] = b])
BY Fields DEF Memory, SameTree

(* See SetBalance.                                                         *)
LEMMA AddBalanceIs ==
  ASSUME NEW m \in Memory, NEW c \in Node, NEW b \in Int
  PROVE  AddBalance(m, c, b) \in Memory /\ SameTree(m, AddBalance(m, c, b))
<1>1. AddBalance(m, c, b) = [m EXCEPT !.balance[c] = m.balance[c] + b]
  BY DEF AddBalance
<1>2. m.balance[c] + b \in Int
  BY Fields
<1> QED BY <1>1, <1>2, SetBalance

(* See SetBalance.                                                         *)
LEMMA RepairedIs ==
  ASSUME NEW m \in Memory
  PROVE  Repaired(m) \in Memory /\ SameTree(m, Repaired(m))
BY DEF Memory, SameTree, Repaired

(* See SetBalance.                                                         *)
LEMMA CrashIs ==
  ASSUME NEW m \in Memory
  PROVE  Crash(m) \in Memory /\ SameTree(m, Crash(m))
BY DEF Memory, SameTree, Crash

----------------------------------------------------------------------------
(* The line of places from the root down to at[k]: each is in the node     *)
(* that the one before it holds.                                           *)

Place == {Top} \cup (Node \X Dirs)

Line(m, at, k) ==
    /\ at[0] = Top
    /\ \A j \in 1 .. k :
          /\ Get(m, at[j - 1]) \in Node
          /\ at[j] \in Node \X Dirs /\ at[j][1] = Get(m, at[j - 1])

(* What a place holds.                                                     *)
LEMMA GetIs ==
  ASSUME NEW m
  PROVE  /\ Get(m, Top) = m.root
         /\ \A n, d : Get(m, <<n, d>>) = m.child[n][d]
         /\ \A p \in Node \X Dirs : /\ Get(m, p) = m.child[p[1]][p[2]]
                                    /\ p[1] \in Node /\ p[2] \in Dirs /\ p # Top
<1>1. \A n, d : <<n, d>> # << >>
  OBVIOUS
<1>2. \A p \in Node \X Dirs : p[1] \in Node /\ p[2] \in Dirs /\ p # << >>
  OBVIOUS
<1> QED BY <1>1, <1>2 DEF Get, Top

(* See GetIs.                                                              *)
LEMMA GetChild ==
  ASSUME NEW m, NEW n, NEW d
  PROVE  Get(m, <<n, d>>) = m.child[n][d]
BY GetIs

(* A pointer changed.                                                      *)
LEMMA PutIs ==
  ASSUME NEW m \in Memory, NEW at \in Place, NEW v \in Pointer, NEW r, r = Put(m, at, v)
  PROVE  /\ r \in Memory
         /\ Get(r, at) = v
         /\ at = Top => r.root = v /\ r.child = m.child
         /\ at # Top => /\ r.root = m.root
                        /\ \A n \in Node, f \in Dirs :
                              r.child[n][f] = IF n = at[1] /\ f = at[2] THEN v ELSE m.child[n][f]
         /\ r.balance = m.balance /\ r.alive = m.alive /\ r.past = m.past
<1>1. CASE at = Top
  <2>1. r = [m EXCEPT !.root = v]
    BY <1>1 DEF Put
  <2> QED BY <1>1, <2>1 DEF Memory, Get
<1>2. CASE at # Top
  <2>1. at \in Node \X Dirs
    BY <1>2 DEF Place
  <2>2. at[1] \in Node /\ at[2] \in Dirs /\ Get(r, at) = r.child[at[1]][at[2]]
    BY <2>1, GetIs
  <2> DEFINE x == at[1]
             d == at[2]
             c == [m.child EXCEPT ![x] = [m.child[x] EXCEPT ![d] = v]]
  <2>3. r = [m EXCEPT !.child = c]
    BY <1>2 DEF Put
  <2>4. m.child \in [Node -> [Dirs -> Pointer]]
    BY Fields
  <2> HIDE DEF x, d
  <2>5. /\ c \in [Node -> [Dirs -> Pointer]]
        /\ \A n \in Node, f \in Dirs : c[n][f] = IF n = x /\ f = d THEN v ELSE m.child[n][f]
    BY <2>2, <2>4 DEF x, d
  <2> HIDE DEF c
  <2>6. r \in Memory /\ r.root = m.root /\ r.child = c
        /\ r.balance = m.balance /\ r.alive = m.alive /\ r.past = m.past
    BY <2>3, <2>5 DEF Memory, Dirs
  <2> QED BY <1>2, <2>2, <2>5, <2>6 DEF x, d
<1> QED BY <1>1, <1>2

(* A child changed.                                                        *)
LEMMA PutChild ==
  ASSUME NEW m \in Memory, NEW x \in Node, NEW d \in Dirs, NEW v \in Pointer,
         NEW r, r = Put(m, <<x, d>>, v)
  PROVE  /\ r \in Memory /\ r.root = m.root
         /\ \A n \in Node, f \in Dirs : r.child[n][f] = IF n = x /\ f = d THEN v ELSE m.child[n][f]
         /\ r.balance = m.balance /\ r.alive = m.alive /\ r.past = m.past
<1> DEFINE c == [m.child EXCEPT ![x] = [m.child[x] EXCEPT ![d] = v]]
<1>1. <<x, d>> # Top /\ <<x, d>>[1] = x /\ <<x, d>>[2] = d
  BY DEF Top
<1>2. r = [m EXCEPT !.child = c]
  BY <1>1 DEF Put
<1>3. m.child \in [Node -> [Dirs -> Pointer]]
  BY Fields
<1>4. /\ c \in [Node -> [Dirs -> Pointer]]
      /\ \A n \in Node, f \in Dirs : c[n][f] = IF n = x /\ f = d THEN v ELSE m.child[n][f]
  BY <1>3
<1> HIDE DEF c
<1>5. r \in Memory /\ r.root = m.root /\ r.child = c
      /\ r.balance = m.balance /\ r.alive = m.alive /\ r.past = m.past
  BY <1>2, <1>4 DEF Memory, Dirs
<1> QED BY <1>4, <1>5

(* Part of a line.                                                         *)
LEMMA LineShorter ==
  ASSUME NEW m, NEW at, NEW k \in Nat, Line(m, at, k), NEW j \in 0 .. k
  PROVE  Line(m, at, j)
<1>1. 1 .. j \subseteq 1 .. k
  OBVIOUS
<1> QED BY <1>1 DEF Line

(* All of it is live.                                                      *)
LEMMA LineLive ==
  ASSUME NEW m \in Memory, NEW at, NEW k \in Nat, Line(m, at, k)
  PROVE  \A j \in 0 .. k : Get(m, at[j]) \in Live(m) \cup {Null}
<1> DEFINE S == {j \in 0 .. k : Get(m, at[j]) \notin Live(m) \cup {Null}}
<1> SUFFICES ASSUME S # {} PROVE FALSE
  OBVIOUS
<1>1. PICK j \in S : \A i \in S : j <= i
  <2>1. S \subseteq Nat
    OBVIOUS
  <2> QED BY <2>1, LeastNat, Zenon
<1>2. j \in 0 .. k /\ Get(m, at[j]) \notin Live(m) \cup {Null}
  BY <1>1
<1>3. j # 0
  BY <1>2, GetIs, LiveIs DEF Line
<1>4. j \in 1 .. k /\ j - 1 \in 0 .. k /\ ~(j <= j - 1)
  BY <1>2, <1>3
<1>5. Get(m, at[j - 1]) \in Live(m) \cup {Null}
  BY <1>1, <1>4
<1> DEFINE c == Get(m, at[j - 1])
           d == at[j][2]
<1>6. c \in Node /\ at[j] \in Node \X Dirs /\ at[j][1] = c /\ d \in Dirs
  BY <1>4, GetIs DEF Line
<1>7. Get(m, at[j]) = m.child[c][d]
  BY <1>6, GetIs
<1>8. c \in Live(m)
  BY <1>5, <1>6, NType
<1> HIDE DEF c, d
<1>9. m.child[c][d] \in Live(m) \cup {Null}
  BY <1>6, <1>8, LiveIs
<1> QED BY <1>2, <1>7, <1>9

(* The places of a line, one by one.                                       *)
LEMMA LineAt ==
  ASSUME NEW m \in Memory, NEW at, NEW k \in Nat, Line(m, at, k), NEW j \in 1 .. k
  PROVE  /\ at[j][1] \in Live(m) /\ at[j][1] \in Node /\ at[j][2] \in Dirs
         /\ at[j] \in Node \X Dirs /\ at[j][1] = Get(m, at[j - 1])
         /\ Get(m, at[j]) = m.child[at[j][1]][at[j][2]]
<1>1. j - 1 \in 0 .. k
  OBVIOUS
<1>2. at[j][1] = Get(m, at[j - 1]) /\ at[j] \in Node \X Dirs
  BY DEF Line
<1>3. /\ Get(m, at[j]) = m.child[at[j][1]][at[j][2]]
      /\ at[j][1] \in Node /\ at[j][2] \in Dirs
  BY <1>2, GetIs
<1>4. at[j][1] \in Live(m)
  BY <1>1, <1>2, <1>3, LineLive, NType
<1> QED BY <1>2, <1>3, <1>4

(* What the last place leads to, all before it do.                         *)
LEMMA LineNested ==
  ASSUME NEW m \in Memory, NEW at, NEW k \in Nat, Line(m, at, k)
  PROVE  \A j \in 0 .. k : Reach(m, Get(m, at[k])) \subseteq Reach(m, Get(m, at[j]))
<1> DEFINE R(j) == Reach(m, Get(m, at[j]))
           S == {i \in 0 .. k : ~(R(k) \subseteq R(k - i))}
<1>1. ASSUME NEW j \in 1 .. k PROVE R(j) \subseteq R(j - 1)
  <2>1. at[j][1] \in Node /\ at[j][2] \in Dirs /\ at[j][1] = Get(m, at[j - 1])
        /\ Get(m, at[j]) = m.child[at[j][1]][at[j][2]]
    BY LineAt
  <2>2. Reach(m, m.child[at[j][1]][at[j][2]]) \subseteq Reach(m, at[j][1])
    BY <2>1, ReachBelow
  <2> QED BY <2>1, <2>2
<1> HIDE DEF R
<1>2. S = {}
  <2> SUFFICES ASSUME S # {} PROVE FALSE
    OBVIOUS
  <2>1. PICK i \in S : \A j \in S : i <= j
    <3>1. S \subseteq Nat
      OBVIOUS
    <3> QED BY <3>1, LeastNat, Zenon
  <2>2. i \in 0 .. k /\ ~(R(k) \subseteq R(k - i))
    BY <2>1
  <2>3. i # 0
    BY <2>2
  <2>4. i - 1 \in 0 .. k /\ ~(i <= i - 1) /\ k - (i - 1) \in 1 .. k /\ (k - (i - 1)) - 1 = k - i
    BY <2>2, <2>3
  <2>5. R(k) \subseteq R(k - (i - 1))
    BY <2>1, <2>4
  <2>6. R(k - (i - 1)) \subseteq R(k - i)
    BY <1>1, <2>4
  <2> QED BY <2>2, <2>5, <2>6
<1>3. ASSUME NEW j \in 0 .. k PROVE R(k) \subseteq R(j)
  <2>1. k - j \in 0 .. k /\ k - (k - j) = j
    OBVIOUS
  <2>2. R(k) \subseteq R(k - (k - j))
    BY <1>2, <2>1
  <2> QED BY <2>1, <2>2
<1> QED BY <1>3 DEF R

(* The nodes above the last place are not below it.                        *)
LEMMA LineAbove ==
  ASSUME NEW m \in Memory, Ordered(m), NEW at, NEW k \in Nat, Line(m, at, k), NEW j \in 1 .. k
  PROVE  /\ Reach(m, Get(m, at[k])) \subseteq Reach(m, m.child[at[j][1]][at[j][2]])
         /\ at[j][1] \notin Reach(m, Get(m, at[k]))
<1>1. at[j][1] \in Live(m) /\ at[j][2] \in Dirs
      /\ Get(m, at[j]) = m.child[at[j][1]][at[j][2]]
  BY LineAt
<1>2. j \in 0 .. k
  OBVIOUS
<1>3. Reach(m, Get(m, at[k])) \subseteq Reach(m, m.child[at[j][1]][at[j][2]])
  BY <1>1, <1>2, LineNested
<1> QED BY <1>1, <1>3, NotBelowItself

(* A line is kept by what does not change its places.                      *)
LEMMA LineKept ==
  ASSUME NEW m, NEW r, NEW at, NEW k \in Nat, Line(m, at, k),
         \A j \in 0 .. k : j # k => Get(r, at[j]) = Get(m, at[j])
  PROVE  Line(r, at, k)
<1>1. \A j \in 1 .. k : j - 1 \in 0 .. k /\ j - 1 # k
  OBVIOUS
<1> QED BY <1>1 DEF Line

----------------------------------------------------------------------------
(* Rotations.                                                              *)

(* From m to r, x skips its child y on side d for z, y's child on the      *)
(* other side, and y points back to x.                                     *)
Turned(m, r, x, d) ==
    LET y == m.child[x][d]
        z == m.child[y][1 - d]
    IN  /\ x \in Node /\ y \in Node /\ z \in Node
        /\ \A n \in Node, e \in Dirs :
              r.child[n][e] = IF n = x /\ e = d THEN z
                              ELSE IF n = y /\ e = 1 - d THEN x ELSE m.child[n][e]

(* The other side.                                                         *)
LEMMA Opposite ==
  ASSUME NEW d \in Dirs
  PROVE  1 - d \in Dirs /\ 1 - d # d /\ 1 - (1 - d) = d /\ AsBalance(d) \in Int
BY DEF Dirs, LEFT, RIGHT, AsBalance

(* _rotate turns, or changes no pointer.                                   *)
LEMMA RotateIs ==
  ASSUME NEW m \in Memory, NEW at, Get(m, at) \in Pointer, NEW dir \in Dirs
  PROVE  /\ Rotate(m, at, dir) \in Memory
         /\ Rotate(m, at, dir).root = m.root
         /\ \/ SameTree(m, Rotate(m, at, dir))
            \/ Turned(m, Rotate(m, at, dir), Get(m, at), 1 - dir)
<1> DEFINE x == Get(m, at)
           y == m.child[x][1 - dir]
           z == m.child[y][dir]
           r == Rotate(m, at, dir)
<1>1. CASE ~m.alive \/ x = Null \/ y = Null \/ z = Null
  <2>1. r = Crash(m)
    BY <1>1 DEF Rotate
  <2> QED BY <2>1, CrashIs DEF SameTree
<1>2. CASE ~(~m.alive \/ x = Null \/ y = Null \/ z = Null)
  <2>1. 1 - dir \in Dirs /\ 1 - (1 - dir) = dir /\ AsBalance(dir) \in Int
    BY Opposite
  <2>2. x \in Node
    BY <1>2 DEF Pointer
  <2>3. y \in Node
    BY <1>2, <2>1, <2>2, Fields DEF Pointer
  <2>4. z \in Node
    BY <1>2, <2>3, Fields DEF Pointer
  <2> DEFINE p == Put(m, <<y, dir>>, x)
             q == Put(p, <<x, 1 - dir>>, z)
             s == AddBalance(Repaired(q), y, AsBalance(dir))
  <2>5. r = AddBalance(s, z, - AsBalance(dir))
    BY <1>2 DEF Rotate
  <2>6. <<y, dir>> \in Place /\ <<x, 1 - dir>> \in Place /\ x \in Pointer /\ z \in Pointer
        /\ <<y, dir>> # Top /\ <<x, 1 - dir>> # Top
    BY <2>1, <2>2, <2>3, <2>4 DEF Place, Pointer, Top
  <2> HIDE DEF x, y, z, r
  <2>7. /\ p \in Memory /\ p.root = m.root
        /\ \A n \in Node, f \in Dirs : p.child[n][f] = IF n = y /\ f = dir THEN x ELSE m.child[n][f]
    BY <2>3, <2>6, PutChild
  <2> HIDE DEF p
  <2>8. /\ q \in Memory /\ q.root = m.root
        /\ \A n \in Node, f \in Dirs : q.child[n][f] = IF n = x /\ f = 1 - dir THEN z ELSE p.child[n][f]
    BY <2>1, <2>2, <2>6, <2>7, PutChild
  <2> HIDE DEF q
  <2>9. s \in Memory /\ s.root = q.root /\ s.child = q.child
    BY <2>1, <2>3, <2>8, RepairedIs, AddBalanceIs DEF SameTree
  <2> HIDE DEF s
  <2>10. r \in Memory /\ r.root = m.root /\ r.child = q.child
    <3>1. - AsBalance(dir) \in Int
      BY <2>1
    <3> QED BY <2>4, <2>5, <2>8, <2>9, <3>1, AddBalanceIs DEF SameTree
  <2>11. Turned(m, r, x, 1 - dir)
    <3>1. z = m.child[y][1 - (1 - dir)] /\ y = m.child[x][1 - dir]
      BY <2>1 DEF y, z
    <3>2. \A n \in Node, f \in Dirs :
             r.child[n][f] = IF n = x /\ f = 1 - dir THEN z
                             ELSE IF n = y /\ f = 1 - (1 - dir) THEN x ELSE m.child[n][f]
      BY <2>1, <2>7, <2>8, <2>10
    <3> QED BY <2>2, <2>3, <2>4, <3>1, <3>2 DEF Turned
  <2> QED BY <2>10, <2>11 DEF r, x
<1> QED BY <1>1, <1>2

(* A turn below a live node leaves a search tree, without the node that is *)
(* skipped.                                                                *)
LEMMA TurnedKeeps ==
  ASSUME NEW m \in Memory, NEW r \in Memory, Ordered(m), r.root = m.root,
         NEW x \in Live(m), NEW d \in Dirs, Turned(m, r, x, d)
  PROVE  Ordered(r) /\ Live(r) \subseteq Live(m)
<1> DEFINE y == m.child[x][d]
           z == m.child[y][1 - d]
           S == Live(m) \ {y}
<1>1. /\ x \in Node /\ y \in Node /\ z \in Node
      /\ \A n \in Node, e \in Dirs :
            r.child[n][e] = IF n = x /\ e = d THEN z
                            ELSE IF n = y /\ e = 1 - d THEN x ELSE m.child[n][e]
  BY DEF Turned
<1>2. y \in Live(m)
  BY <1>1, LiveIs, NType
<1>3. 1 - d \in Dirs
  BY Opposite
<1>4. z \in Live(m)
  BY <1>1, <1>2, <1>3, LiveIs, NType
<1>5. Null \notin Node
  BY NType
<1> HIDE DEF z
<1>6. z \in Reach(m, m.child[y][1 - d]) /\ y \in Reach(m, y)
  <2>1. m.child[y][1 - d] = z
    BY DEF z
  <2> QED BY <1>2, <1>4, <2>1, LiveIs
<1>7. z # y
  BY <1>2, <1>3, <1>6, NotBelowItself
<1>8. \A w \in S, e \in Dirs :
         r.child[w][e] = IF w = x /\ e = d THEN z ELSE m.child[w][e]
  BY <1>1, LiveIs
<1>9. ASSUME NEW w \in S, NEW e \in Dirs PROVE r.child[w][e] \in S \cup {Null}
  <2>1. CASE w = x /\ e = d
    BY <1>4, <1>7, <1>8, <2>1
  <2>2. CASE ~(w = x /\ e = d)
    <3>1. r.child[w][e] = m.child[w][e] /\ w \in Live(m)
      BY <1>8, <2>2
    <3>2. m.child[w][e] \in Live(m) \cup {Null}
      BY LiveIs
    <3>3. m.child[w][e] # y
      BY <1>1, <1>5, <2>2, <3>1, UniqueParent
    <3> QED BY <3>1, <3>2, <3>3
  <2> QED BY <2>1, <2>2
<1>10. Closed(r, S)
  BY <1>9 DEF Closed
<1>11. r.root \in S \cup {Null}
  <2>1. m.root \in Live(m) \cup {Null}
    BY LiveIs
  <2>2. m.root # y
    <3>1. x \notin Reach(m, y)
      BY NotBelowItself
    <3> QED BY <3>1 DEF Live
  <2> QED BY <2>1, <2>2
<1>12. ASSUME NEW w \in S, NEW e \in Dirs
       PROVE r.child[w][e] \in Reach(m, m.child[w][e]) \cup {Null}
  <2>1. CASE w = x /\ e = d
    <3>1. Reach(m, m.child[y][1 - d]) \subseteq Reach(m, y)
      BY <1>1, <1>3, ReachBelow
    <3> QED BY <1>6, <1>8, <2>1, <3>1
  <2>2. CASE ~(w = x /\ e = d)
    <3>1. r.child[w][e] = m.child[w][e] /\ w \in Live(m)
      BY <1>8, <2>2
    <3>2. m.child[w][e] \in Pointer
      BY LiveIs
    <3> QED BY <3>1, <3>2, ReachIs
  <2> QED BY <2>1, <2>2
<1>13. S \in SUBSET Live(m)
  OBVIOUS
<1> HIDE DEF S
<1>14. Ordered(r) /\ Live(r) \subseteq S
  BY <1>10, <1>11, <1>12, <1>13, Shrunk
<1> QED BY <1>13, <1>14

(* Nor does it change the line to a place above.                           *)
LEMMA TurnedLine ==
  ASSUME NEW m \in Memory, NEW r \in Memory, Ordered(m), r.root = m.root,
         NEW at, NEW k \in Nat, Line(m, at, k), Get(m, at[k]) \in Node,
         NEW x \in Reach(m, Get(m, at[k])), NEW d \in Dirs, Turned(m, r, x, d)
  PROVE  Line(r, at, k) /\ Get(r, at[k]) = Get(m, at[k])
<1> DEFINE y == m.child[x][d]
           R == Reach(m, Get(m, at[k]))
<1>1. /\ x \in Node /\ y \in Node
      /\ \A n \in Node, e \in Dirs : n \notin {x, y} => r.child[n][e] = m.child[n][e]
  BY DEF Turned
<1>2. y \in R
  <2>1. Get(m, at[k]) \in Pointer
    BY DEF Pointer
  <2>2. Closed(m, R)
    BY <2>1, ReachIs
  <2>3. y \in R \cup {Null}
    BY <2>2 DEF Closed
  <2> QED BY <1>1, <2>3, NType
<1>3. ASSUME NEW j \in 0 .. k PROVE Get(r, at[j]) = Get(m, at[j])
  <2>1. CASE j = 0
    BY <2>1, GetIs DEF Line
  <2>2. CASE j # 0
    <3>1. j \in 1 .. k
      BY <2>2
    <3>2. at[j] \in Node \X Dirs /\ at[j][1] \notin R
      BY <3>1, LineAt, LineAbove
    <3>3. at[j][1] \in Node /\ at[j][2] \in Dirs
          /\ Get(r, at[j]) = r.child[at[j][1]][at[j][2]]
          /\ Get(m, at[j]) = m.child[at[j][1]][at[j][2]]
      BY <3>2, GetIs
    <3>4. at[j][1] \notin {x, y}
      BY <1>2, <3>2
    <3> QED BY <1>1, <3>3, <3>4
  <2> QED BY <2>1, <2>2
<1>4. k \in 0 .. k
  OBVIOUS
<1> QED BY <1>3, <1>4, LineKept

(* A rotation at the end of a line, or at a child of it.                   *)
LEMMA RotateKeeps ==
  ASSUME NEW m \in Memory, Ordered(m), NEW at, NEW k \in Nat, Line(m, at, k),
         Get(m, at[k]) \in Node, NEW p, Get(m, p) \in Reach(m, Get(m, at[k])) \cup {Null},
         NEW dir \in Dirs, NEW r, r = Rotate(m, p, dir)
  PROVE  /\ r \in Memory /\ Ordered(r) /\ Live(r) \subseteq Live(m)
         /\ Line(r, at, k) /\ Get(r, at[k]) = Get(m, at[k])
<1> DEFINE x == Get(m, p)
<1>1. Get(m, at[k]) \in Live(m)
  <2>1. k \in 0 .. k
    OBVIOUS
  <2> QED BY <2>1, LineLive, NType
<1>2. x \in Live(m) \cup {Null} /\ x \in Pointer
  BY <1>1, LiveIs DEF Pointer
<1>3. r \in Memory /\ r.root = m.root /\ (SameTree(m, r) \/ Turned(m, r, x, 1 - dir))
  BY <1>2, RotateIs
<1>4. CASE SameTree(m, r)
  <2>1. Ordered(r) /\ Live(r) = Live(m)
    BY <1>3, <1>4, SameOrder
  <2>2. \A j \in 0 .. k : Get(r, at[j]) = Get(m, at[j])
    BY <1>4 DEF SameTree, Get
  <2>3. k \in 0 .. k
    OBVIOUS
  <2> QED BY <1>3, <2>1, <2>2, <2>3, LineKept
<1>5. CASE Turned(m, r, x, 1 - dir)
  <2>1. x \in Node
    BY <1>5 DEF Turned
  <2>2. x \in Live(m) /\ x \in Reach(m, Get(m, at[k])) /\ 1 - dir \in Dirs
    BY <1>2, <2>1, NType, Opposite
  <2>3. Ordered(r) /\ Live(r) \subseteq Live(m)
    BY <1>3, <1>5, <2>2, TurnedKeeps
  <2>4. Line(r, at, k) /\ Get(r, at[k]) = Get(m, at[k])
    BY <1>3, <1>5, <2>2, TurnedLine
  <2> QED BY <1>3, <2>3, <2>4
<1> QED BY <1>3, <1>4, <1>5

(* _rebalance at the end of a line.                                        *)
LEMMA RebalanceKeeps ==
  ASSUME NEW m \in Memory, Ordered(m), NEW at, NEW k \in Nat, Line(m, at, k),
         NEW dir \in Dirs, NEW r, r = Rebalance(m, at[k], dir)
  PROVE  r \in Memory /\ Ordered(r) /\ Live(r) \subseteq Live(m) /\ Line(r, at, k)
<1> DEFINE a == Get(m, at[k])
           c == m.child[a][dir]
           s == IF m.balance[a] * m.balance[c] < 0 THEN Rotate(m, <<a, dir>>, dir) ELSE m
<1>1. CASE ~m.alive \/ (a # Null /\ m.balance[a] \notin {2, -2})
  <2>1. r = m
    BY <1>1 DEF Rebalance
  <2> QED BY <2>1
<1>2. CASE ~(~m.alive \/ (a # Null /\ m.balance[a] \notin {2, -2})) /\ (a = Null \/ c = Null)
  <2>1. r = Crash(m)
    BY <1>2 DEF Rebalance
  <2>2. r \in Memory /\ SameTree(m, r)
    BY <2>1, CrashIs
  <2>3. Ordered(r) /\ Live(r) = Live(m)
    BY <2>2, SameOrder
  <2>4. \A j \in 0 .. k : Get(r, at[j]) = Get(m, at[j])
    BY <2>2 DEF SameTree, Get
  <2> QED BY <2>2, <2>3, <2>4, LineKept
<1>3. CASE ~(~m.alive \/ (a # Null /\ m.balance[a] \notin {2, -2})) /\ ~(a = Null \/ c = Null)
  <2>1. r = Rotate(s, at[k], 1 - dir)
    BY <1>3 DEF Rebalance
  <2>2. a \in Live(m)
    <3>1. k \in 0 .. k
      OBVIOUS
    <3> QED BY <1>3, <3>1, LineLive
  <2>3. a \in Node /\ a \in Reach(m, a) /\ 1 - dir \in Dirs
    BY <2>2, LiveIs, Opposite
  <2>4. Get(m, <<a, dir>>) = c /\ c \in Reach(m, a)
    <3>1. c \in Pointer /\ c # Null
      BY <1>3, <2>2, LiveIs
    <3>2. c \in Reach(m, c)
      BY <3>1, ReachIs
    <3>3. Reach(m, c) \subseteq Reach(m, a)
      BY <2>3, ReachBelow
    <3> QED BY <3>2, <3>3, GetIs
  <2>5. s \in Memory /\ Ordered(s) /\ Live(s) \subseteq Live(m) /\ Line(s, at, k) /\ Get(s, at[k]) = a
    <3>1. CASE s = m
      BY <3>1
    <3>2. CASE s = Rotate(m, <<a, dir>>, dir)
      <4> HIDE DEF c, s
      <4> QED BY <2>3, <2>4, <3>2, RotateKeeps
    <3> QED BY <3>1, <3>2
  <2>6. a \in Reach(s, a)
    <3>1. a \in Pointer /\ a # Null
      BY <2>3, NType DEF Pointer
    <3> QED BY <2>5, <3>1, ReachIs
  <2> HIDE DEF s, c
  <2>7. r \in Memory /\ Ordered(r) /\ Live(r) \subseteq Live(s) /\ Line(r, at, k)
    BY <2>1, <2>3, <2>5, <2>6, RotateKeeps
  <2> QED BY <2>5, <2>7
<1> QED BY <1>1, <1>2, <1>3

(* Nothing has gone wrong: no crash, no rotation and no swap.              *)
Whole(m) == m.alive /\ "repair" \notin m.past

(* A rotation ends it, or the process.                                     *)
LEMMA RotateSpoils ==
  ASSUME NEW m \in Memory, NEW at, Get(m, at) \in Pointer, NEW dir \in Dirs
  PROVE  ~Whole(Rotate(m, at, dir))
<1> DEFINE old       == Get(m, at)
           new_root  == m.child[old][1 - dir]
           new_child == m.child[new_root][dir]
           turned    == Put(Put(m, <<new_root, dir>>, old), <<old, 1 - dir>>, new_child)
<1>1. CASE ~m.alive \/ old = Null \/ new_root = Null \/ new_child = Null
  <2>1. Rotate(m, at, dir) = Crash(m)
    BY <1>1 DEF Rotate
  <2>2. Crash(m).alive = FALSE
    BY DEF Crash, Memory
  <2> QED BY <2>1, <2>2 DEF Whole
<1>2. CASE ~(~m.alive \/ old = Null \/ new_root = Null \/ new_child = Null)
  <2> DEFINE t == AddBalance(Repaired(turned), new_root, AsBalance(dir))
  <2>1. Rotate(m, at, dir) = AddBalance(t, new_child, - AsBalance(dir))
    BY <1>2 DEF Rotate
  <2>2. 1 - dir \in Dirs /\ AsBalance(dir) \in Int
    BY Opposite
  <2>3. old \in Node /\ old \in Pointer
    BY <1>2 DEF Pointer
  <2>4. new_root \in Node
    BY <1>2, <2>2, <2>3, Fields DEF Pointer
  <2>5. new_child \in Node /\ new_child \in Pointer
    BY <1>2, <2>4, Fields DEF Pointer
  <2> DEFINE one == Put(m, <<new_root, dir>>, old)
  <2> HIDE DEF old, new_root, new_child
  <2>6. one \in Memory
    BY <2>3, <2>4, PutChild
  <2>7. turned = Put(one, <<old, 1 - dir>>, new_child)
    OBVIOUS
  <2> HIDE DEF one, turned
  <2>8. turned \in Memory
    BY <2>2, <2>3, <2>5, <2>6, <2>7, PutChild
  <2>9. Repaired(turned) \in Memory /\ "repair" \in Repaired(turned).past
    BY <2>8, RepairedIs DEF Repaired, Memory
  <2>10. t \in Memory
    BY <2>2, <2>4, <2>9, AddBalanceIs
  <2>11. t.past = Repaired(turned).past
    BY <2>9 DEF AddBalance, Memory
  <2> HIDE DEF t
  <2>12. AddBalance(t, new_child, - AsBalance(dir)).past = t.past
    BY <2>10 DEF AddBalance, Memory
  <2> QED BY <2>1, <2>9, <2>11, <2>12 DEF Whole
<1> QED BY <1>1, <1>2

(* So rebalancing does nothing before.                                     *)
LEMMA RebalanceWhole ==
  ASSUME NEW m \in Memory, NEW at \in Place, NEW dir \in Dirs, Whole(Rebalance(m, at, dir))
  PROVE  Rebalance(m, at, dir) = m /\ m.balance[Get(m, at)] \notin {2, -2}
<1> DEFINE a == Get(m, at)
           c == m.child[a][dir]
           s == IF m.balance[a] * m.balance[c] < 0 THEN Rotate(m, <<a, dir>>, dir) ELSE m
<1>0. ASSUME NEW w \in Memory PROVE Get(w, at) \in Pointer
  <2>1. CASE at = Top
    BY <2>1, GetIs, Fields
  <2>2. CASE at # Top
    <3>1. at \in Node \X Dirs
      BY <2>2 DEF Place
    <3>2. at[1] \in Node /\ at[2] \in Dirs /\ Get(w, at) = w.child[at[1]][at[2]]
      BY <3>1, GetIs
    <3> QED BY <3>2, Fields
  <2> QED BY <2>1, <2>2
<1>1. CASE ~m.alive \/ (a # Null /\ m.balance[a] \notin {2, -2})
  <2>1. Rebalance(m, at, dir) = m
    BY <1>1 DEF Rebalance
  <2> QED BY <1>1, <2>1 DEF Whole
<1>2. CASE /\ ~(~m.alive \/ (a # Null /\ m.balance[a] \notin {2, -2}))
           /\ a = Null \/ c = Null
  <2>1. Rebalance(m, at, dir) = Crash(m)
    BY <1>2 DEF Rebalance
  <2>2. Crash(m).alive = FALSE
    BY DEF Crash, Memory
  <2> QED BY <2>1, <2>2 DEF Whole
<1>3. CASE /\ ~(~m.alive \/ (a # Null /\ m.balance[a] \notin {2, -2}))
           /\ ~(a = Null \/ c = Null)
  <2>1. Rebalance(m, at, dir) = Rotate(s, at, 1 - dir)
    BY <1>3 DEF Rebalance
  <2>2. a \in Node /\ 1 - dir \in Dirs
    BY <1>0, <1>3, Opposite DEF Pointer
  <2>3. Get(m, <<a, dir>>) \in Pointer
    BY <2>2, GetChild, Fields
  <2>4. s \in Memory
    BY <2>3, RotateIs
  <2> HIDE DEF s
  <2>5. ~Whole(Rotate(s, at, 1 - dir))
    BY <1>0, <2>2, <2>4, RotateSpoils
  <2> QED BY <2>1, <2>5
<1> QED BY <1>1, <1>2, <1>3

----------------------------------------------------------------------------
(* The places that the calls go through.                                   *)

IsDescent(m, from, to, n, f) ==
    f = [k \in 0 .. n |-> IF k = 0 THEN from ELSE Below(m, f[k - 1], to)]

(* The recursive definition of Descent has a solution.                     *)
LEMMA DescentExists ==
  ASSUME NEW m, NEW from, NEW to, NEW n \in Nat
  PROVE  \E f : IsDescent(m, from, to, n, f)
<1> DEFINE S == {i \in Nat : ~ \E f : IsDescent(m, from, to, i, f)}
<1>1. CASE S = {}
  BY <1>1
<1>2. CASE S # {}
  <2>1. PICK i \in S : \A k \in S : i <= k
    BY <1>2, LeastNat, Zenon
  <2>2. i # 0
    <3> DEFINE f == [k \in 0 .. 0 |-> from]
    <3>1. IsDescent(m, from, to, 0, f)
      BY DEF IsDescent
    <3> QED BY <2>1, <3>1
  <2>3. i \in Nat /\ i - 1 \in Nat /\ i - 1 \notin S
    BY <2>1, <2>2
  <2>4. PICK g : IsDescent(m, from, to, i - 1, g)
    BY <2>3
  <2> DEFINE f == [k \in 0 .. i |-> IF k = 0 THEN from ELSE Below(m, g[k - 1], to)]
  <2>5. \A k \in 0 .. (i - 1) : g[k] = IF k = 0 THEN from ELSE Below(m, g[k - 1], to)
    BY <2>3, <2>4 DEF IsDescent
  <2>6. \A k \in 0 .. (i - 1) : f[k] = g[k]
    <3>1. \A k \in 0 .. (i - 1) : k \in 0 .. i
      BY <2>3
    <3> QED BY <2>5, <3>1
  <2>7. \A k \in 0 .. i : f[k] = IF k = 0 THEN from ELSE Below(m, f[k - 1], to)
    <3>1. \A k \in 0 .. i : k # 0 => k - 1 \in 0 .. (i - 1)
      BY <2>3
    <3> QED BY <2>6, <3>1
  <2> HIDE DEF S
  <2>8. IsDescent(m, from, to, i, f)
    <3>1. DOMAIN f = 0 .. i
      OBVIOUS
    <3>2. f = [k \in 0 .. i |-> f[k]]
      BY <3>1
    <3> HIDE DEF f
    <3>3. [k \in 0 .. i |-> f[k]]
          = [k \in 0 .. i |-> IF k = 0 THEN from ELSE Below(m, f[k - 1], to)]
      BY <2>7
    <3> QED BY <3>2, <3>3 DEF IsDescent
  <2> QED BY <2>1, <2>8 DEF S
<1> QED BY <1>1, <1>2

(* So Descent is that solution.                                            *)
LEMMA DescentSteps ==
  ASSUME NEW m, NEW from, NEW to
  PROVE  /\ Descent(m, from, to)[0] = from
         /\ \A k \in 1 .. N : Descent(m, from, to)[k] = Below(m, Descent(m, from, to)[k - 1], to)
<1>1. N \in Nat
  BY NType
<1>2. \E f : f = [k \in 0 .. N |-> IF k = 0 THEN from ELSE Below(m, f[k - 1], to)]
  <2>1. PICK f : IsDescent(m, from, to, N, f)
    BY <1>1, DescentExists, Zenon
  <2> QED BY <2>1 DEF IsDescent
<1>3. Descent(m, from, to)
      = [k \in 0 .. N |-> IF k = 0 THEN from ELSE Below(m, Descent(m, from, to)[k - 1], to)]
  BY <1>2 DEF Descent, N
<1> DEFINE W == Descent(m, from, to)
<1> HIDE DEF W
<1>4. W = [k \in 0 .. N |-> IF k = 0 THEN from ELSE Below(m, W[k - 1], to)]
  BY <1>3 DEF W
<1>5. \A k \in 0 .. N : W[k] = IF k = 0 THEN from ELSE Below(m, W[k - 1], to)
  BY <1>4
<1>6. 0 \in 0 .. N /\ \A k \in 1 .. N : k \in 0 .. N /\ k # 0
  BY <1>1
<1> QED BY <1>5, <1>6 DEF W

(* A line is no longer than there are nodes.                               *)
LEMMA LineBound ==
  ASSUME NEW m \in Memory, Ordered(m), NEW at, NEW k \in Nat, Line(m, at, k),
         Get(m, at[k]) \in Node
  PROVE  k < N
<1> DEFINE R(j) == Reach(m, Get(m, at[j]))
           C(j) == Cardinality(R(j))
           S == {j \in 0 .. k : ~(C(j) + j <= N)}
<1>1. N \in Nat /\ IsFiniteSet(Node) /\ Null \notin Node
  BY NType
<1>2. ASSUME NEW j \in 0 .. k
      PROVE  R(j) \subseteq Node /\ IsFiniteSet(R(j)) /\ C(j) \in Nat /\ C(j) <= N
  <2>1. Get(m, at[j]) \in Pointer
    BY LineLive, LiveIs DEF Pointer
  <2>2. R(j) \subseteq Node
    BY <2>1, ReachIs
  <2> QED BY <1>1, <2>2, FS_Subset, FS_CardinalityType DEF N
<1>3. ASSUME NEW j \in 1 .. k PROVE C(j) < C(j - 1)
  <2>1. j \in 0 .. k /\ j - 1 \in 0 .. k /\ j \in Nat /\ j \in 1 .. j
    OBVIOUS
  <2>2. Line(m, at, j)
    BY <2>1, LineShorter, Zenon
  <2>3. at[j][1] \in Live(m) /\ at[j][1] = Get(m, at[j - 1]) /\ at[j][1] \in R(j - 1)
    BY LineAt, LiveIs
  <2>4. at[j][1] \notin R(j)
    BY <2>1, <2>2, LineAbove
  <2>5. R(j) \subseteq R(j - 1)
    <3>1. j - 1 \in 0 .. j
      BY <2>1
    <3> QED BY <2>1, <2>2, <3>1, LineNested
  <2>6. C(j) <= C(j - 1) /\ (C(j) = C(j - 1) => R(j) = R(j - 1))
    BY <1>2, <2>1, <2>5, FS_Subset
  <2>7. C(j) # C(j - 1) /\ C(j) \in Nat /\ C(j - 1) \in Nat
    BY <1>2, <2>1, <2>3, <2>4, <2>6
  <2> HIDE DEF C
  <2> QED BY <2>6, <2>7
<1>4. R(k) # {} /\ k \in 0 .. k
  <2>1. Get(m, at[k]) \in Pointer /\ Get(m, at[k]) # Null
    BY <1>1 DEF Pointer
  <2> QED BY <2>1, ReachIs
<1>5. C(k) # 0
  BY <1>2, <1>4, FS_EmptySet
<1> HIDE DEF R, C
<1>6. S = {}
  <2> SUFFICES ASSUME S # {} PROVE FALSE
    OBVIOUS
  <2>1. PICK j \in S : \A i \in S : j <= i
    <3>1. S \subseteq Nat
      OBVIOUS
    <3> QED BY <3>1, LeastNat, Zenon
  <2>2. j \in 0 .. k /\ ~(C(j) + j <= N)
    BY <2>1
  <2>3. j # 0
    BY <1>1, <1>2, <2>2
  <2>4. j \in 1 .. k /\ j - 1 \in 0 .. k /\ ~(j <= j - 1)
    BY <2>2, <2>3
  <2>5. C(j - 1) + (j - 1) <= N
    BY <2>1, <2>4
  <2>6. C(j) < C(j - 1) /\ C(j) \in Nat /\ C(j - 1) \in Nat
    BY <1>2, <1>3, <2>4
  <2> QED BY <1>1, <2>2, <2>5, <2>6
<1>7. C(k) + k <= N /\ C(k) \in Nat
  BY <1>2, <1>4, <1>6
<1> QED BY <1>1, <1>5, <1>7

(* The first of the places that holds one of the pointers, if one does.    *)
LEMMA DepthIs ==
  ASSUME NEW m, NEW at, NEW stop, NEW i \in 0 .. N, Get(m, at[i]) \in stop,
         NEW k, k = Depth(m, at, stop)
  PROVE  /\ k \in 0 .. N /\ Get(m, at[k]) \in stop
         /\ \A j \in 0 .. k - 1 : Get(m, at[j]) \notin stop
<1> DEFINE S == {j \in 0 .. N : Get(m, at[j]) \in stop}
<1>1. N \in Nat
  BY NType
<1>2. S \subseteq Nat /\ S # {}
  BY <1>1
<1>3. PICK j \in S : \A l \in S : j <= l
  BY <1>2, LeastNat, Zenon
<1>4. j \in 0 .. N /\ Get(m, at[j]) \in stop
  BY <1>3
<1>5. \A l \in 0 .. j - 1 : Get(m, at[l]) \notin stop
  <2>1. \A l \in 0 .. j - 1 : l \in 0 .. N /\ ~(j <= l)
    BY <1>1, <1>4
  <2> QED BY <1>3, <2>1
<1> QED BY <1>4, <1>5 DEF Depth, N

(* The places of a descent are a line as long as they hold nodes.          *)
LEMMA DescentLine ==
  ASSUME NEW m \in Memory, NEW to \in [Node -> Dirs], NEW at, at = Descent(m, Top, to),
         NEW k \in 0 .. N, \A j \in 0 .. k - 1 : Get(m, at[j]) # Null
  PROVE  Line(m, at, k) /\ \A j \in 1 .. k : at[j][2] = to[at[j][1]]
<1>1. at[0] = Top /\ \A j \in 1 .. N : at[j] = Below(m, at[j - 1], to)
  BY DescentSteps
<1>2. N \in Nat
  BY NType
<1> DEFINE OK(j) == Line(m, at, j) /\ \A i \in 1 .. j : at[i][2] = to[at[i][1]]
           S == {j \in 0 .. k : ~OK(j)}
<1>3. S = {}
  <2> SUFFICES ASSUME S # {} PROVE FALSE
    OBVIOUS
  <2>1. PICK j \in S : \A i \in S : j <= i
    <3>1. S \subseteq Nat
      BY <1>2
    <3> QED BY <3>1, LeastNat, Zenon
  <2>2. j \in 0 .. k /\ ~OK(j)
    BY <2>1
  <2>3. j # 0
    BY <1>1, <2>2 DEF Line
  <2>4. j \in 1 .. N /\ j - 1 \in 0 .. k /\ ~(j <= j - 1) /\ j - 1 \in 0 .. k - 1 /\ j - 1 \in Nat
    BY <1>2, <2>2, <2>3
  <2>5. OK(j - 1)
    BY <2>1, <2>4
  <2> DEFINE c == Get(m, at[j - 1])
  <2>6. c \in Node
    <3>1. c \in Live(m) \cup {Null}
      <4>1. j - 1 \in 0 .. j - 1
        BY <2>4
      <4> QED BY <2>4, <2>5, <4>1, LineLive
    <3> QED BY <2>4, <3>1, LiveIs
  <2>7. at[j] = <<c, to[c]>> /\ to[c] \in Dirs
    BY <1>1, <2>4, <2>6 DEF Below
  <2> HIDE DEF c
  <2>8. at[j] \in Node \X Dirs /\ at[j][1] = c /\ at[j][2] = to[c]
    BY <2>6, <2>7
  <2>9. \A i \in 1 .. j : i = j \/ i \in 1 .. j - 1
    BY <2>2
  <2>10. Line(m, at, j)
    BY <1>1, <2>5, <2>6, <2>8, <2>9 DEF Line, c
  <2>11. \A i \in 1 .. j : at[i][2] = to[at[i][1]]
    BY <2>5, <2>8, <2>9
  <2> QED BY <2>2, <2>10, <2>11
<1>4. k \in 0 .. k
  BY <1>2
<1> QED BY <1>3, <1>4

(* It ends.                                                                *)
LEMMA DescentEnds ==
  ASSUME NEW m \in Memory, Ordered(m), NEW to \in [Node -> Dirs], NEW at,
         at = Descent(m, Top, to), NEW stop, Null \in stop, NEW k, k = Depth(m, at, stop)
  PROVE  /\ k \in 0 .. N /\ k \in Nat /\ Get(m, at[k]) \in stop
         /\ \A j \in 0 .. k - 1 : Get(m, at[j]) \notin stop /\ Get(m, at[j]) \in Live(m)
         /\ Line(m, at, k) /\ \A j \in 1 .. k : at[j][2] = to[at[j][1]]
         /\ Get(m, at[k]) \in Live(m) \cup {Null}
<1>1. N \in Nat
  BY NType
<1>2. \E i \in 0 .. N : Get(m, at[i]) \in stop
  <2> SUFFICES ASSUME \A i \in 0 .. N : Get(m, at[i]) # Null PROVE FALSE
    OBVIOUS
  <2>1. N \in 0 .. N /\ \A j \in 0 .. N - 1 : j \in 0 .. N
    BY <1>1
  <2>2. Line(m, at, N)
    BY <2>1, DescentLine
  <2>3. Get(m, at[N]) \in Node
    BY <1>1, <2>1, <2>2, LineLive, LiveIs
  <2>4. N < N
    BY <1>1, <2>2, <2>3, LineBound
  <2> QED BY <1>1, <2>4
<1>3. PICK i \in 0 .. N : Get(m, at[i]) \in stop
  BY <1>2
<1>4. /\ k \in 0 .. N /\ Get(m, at[k]) \in stop
      /\ \A j \in 0 .. k - 1 : Get(m, at[j]) \notin stop
  BY <1>3, DepthIs, Zenon
<1>5. k \in Nat /\ \A j \in 0 .. k - 1 : Get(m, at[j]) # Null
  BY <1>1, <1>4
<1>6. Line(m, at, k) /\ \A j \in 1 .. k : at[j][2] = to[at[j][1]]
  BY <1>4, <1>5, DescentLine
<1>7. \A j \in 0 .. k : Get(m, at[j]) \in Live(m) \cup {Null}
  BY <1>5, <1>6, LineLive
<1>8. k \in 0 .. k /\ \A j \in 0 .. k - 1 : j \in 0 .. k
  BY <1>5
<1> QED BY <1>4, <1>5, <1>6, <1>7, <1>8

(* The line to what is below a side of v goes through that side of v.      *)
LEMMA LineSpot ==
  ASSUME NEW m \in Memory, Ordered(m), NEW at, NEW k \in Nat, Line(m, at, k),
         NEW v \in Live(m), NEW e \in Dirs, Get(m, at[k]) \in Reach(m, m.child[v][e])
  PROVE  \E i \in 1 .. k : at[i][1] = v /\ at[i][2] = e
<1> DEFINE Q == Reach(m, m.child[v][e])
           S == {j \in 0 .. k : Get(m, at[j]) \in Q /\ \A i \in 1 .. j : ~(at[i][1] = v /\ at[i][2] = e)}
<1> SUFFICES ASSUME \A i \in 1 .. k : ~(at[i][1] = v /\ at[i][2] = e) PROVE FALSE
  OBVIOUS
<1>1. k \in S
  OBVIOUS
<1>2. PICK j \in S : \A i \in S : j <= i
  <2>1. S \subseteq Nat /\ S # {}
    BY <1>1
  <2> QED BY <2>1, LeastNat, Zenon
<1>3. j \in 0 .. k /\ Get(m, at[j]) \in Q /\ \A i \in 1 .. j : ~(at[i][1] = v /\ at[i][2] = e)
  BY <1>2
<1>4. v \notin Q /\ m.child[v][e] \in Pointer
  BY NotBelowItself, LiveIs
<1>5. CASE j = 0
  <2>1. Get(m, at[j]) = m.root
    BY <1>5, GetIs DEF Line
  <2>2. Reach(m, m.root) \subseteq Q
    BY <1>3, <1>4, <2>1, ReachWithin
  <2> QED BY <1>4, <2>2 DEF Live
<1>6. CASE j # 0
  <2>1. j \in 1 .. k /\ j - 1 \in 0 .. k /\ ~(j <= j - 1) /\ j \in 1 .. j
        /\ \A i \in 1 .. j - 1 : i \in 1 .. j
    BY <1>3, <1>6
  <2> DEFINE u == at[j][1]
             f == at[j][2]
             x == m.child[u][f]
  <2>2. u \in Live(m) /\ f \in Dirs /\ u = Get(m, at[j - 1]) /\ x = Get(m, at[j])
    BY <2>1, LineAt
  <2> HIDE DEF u, f, x
  <2>3. x \in Q /\ x = m.child[u][f] /\ ~(u = v /\ f = e)
    BY <1>3, <2>1, <2>2 DEF u, f, x
  <2>4. x \in Node /\ x # Null /\ x \in Reach(m, x)
    <3>1. x \in Node
      BY <1>4, <2>3, ReachIs
    <3>2. x \in Pointer /\ x # Null
      BY <3>1, NType DEF Pointer
    <3> QED BY <3>1, <3>2, ReachIs
  <2>5. x # m.child[v][e]
    BY <2>2, <2>3, <2>4, UniqueParent
  <2>6. m.child[v][e] \in Node
    <3>1. m.child[v][e] # Null
      BY <2>3, ReachNull
    <3> QED BY <1>4, <3>1 DEF Pointer
  <2>7. PICK w \in Q, g \in Dirs : m.child[w][g] = x
    BY <2>3, <2>5, <2>6, HasParent
  <2>8. w \in Live(m)
    BY LiveIs
  <2>9. w = u
    BY <2>2, <2>3, <2>4, <2>7, <2>8, UniqueParent
  <2>10. j - 1 \in S
    BY <1>3, <2>1, <2>2, <2>9
  <2> QED BY <1>2, <2>1, <2>10
<1> QED BY <1>5, <1>6

(* A line that turns to the side of x everywhere leads to x.               *)
LEMMA Guided ==
  ASSUME NEW m \in Memory, Ordered(m), NEW at, NEW k \in Nat, Line(m, at, k),
         NEW x \in Live(m),
         \A j \in 1 .. k : at[j][1] # x /\ On(at[j][2], x, at[j][1])
  PROVE  x \in Reach(m, Get(m, at[k]))
<1> DEFINE S == {j \in 0 .. k : x \notin Reach(m, Get(m, at[j]))}
<1> SUFFICES ASSUME S # {} PROVE FALSE
  OBVIOUS
<1>1. PICK j \in S : \A i \in S : j <= i
  <2>1. S \subseteq Nat
    OBVIOUS
  <2> QED BY <2>1, LeastNat, Zenon
<1>2. j \in 0 .. k /\ x \notin Reach(m, Get(m, at[j]))
  BY <1>1
<1>3. j # 0
  BY <1>2, GetIs DEF Line, Live
<1>4. j \in 1 .. k /\ j - 1 \in 0 .. k /\ ~(j <= j - 1)
  BY <1>2, <1>3
<1>5. x \in Reach(m, Get(m, at[j - 1]))
  BY <1>1, <1>4
<1> DEFINE u == at[j][1]
           f == at[j][2]
<1>6. u \in Live(m) /\ u \in Node /\ f \in Dirs /\ u = Get(m, at[j - 1])
      /\ Get(m, at[j]) = m.child[u][f]
  BY <1>4, LineAt
<1>7. u # x /\ On(f, x, u)
  BY <1>4
<1> HIDE DEF u, f
<1>8. PICK e \in Dirs : x \in Reach(m, m.child[u][e])
  BY <1>5, <1>6, <1>7, ReachBelow
<1>9. On(e, x, u) /\ x \in Node
  BY <1>6, <1>8, LiveIs DEF Ordered
<1>10. e = f
  BY <1>6, <1>7, <1>9, OneSide
<1> QED BY <1>2, <1>6, <1>8, <1>10

----------------------------------------------------------------------------
(* The calls on their way back.                                            *)

Up(m, at, turn, inserting, same, changed, k, sub) ==
    Returned(m, at[k], sub, turn[k], inserting, same[k], changed[k])

IsBack(m, at, depth, last, turn, inserting, same, changed, i, f) ==
    f = [k \in depth - i .. depth |->
            IF k = depth THEN last
            ELSE Up(m, at, turn, inserting, same, changed, k, f[k + 1])]

(* The recursive definition of Back has a solution.                        *)
LEMMA BackExists ==
  ASSUME NEW m, NEW at, NEW depth \in Nat, NEW last, NEW turn, NEW inserting, NEW same,
         NEW changed, NEW n \in Nat
  PROVE  \E f : IsBack(m, at, depth, last, turn, inserting, same, changed, n, f)
<1> DEFINE Is(i, f) == IsBack(m, at, depth, last, turn, inserting, same, changed, i, f)
           U(k, sub) == Up(m, at, turn, inserting, same, changed, k, sub)
           S == {i \in Nat : ~ \E f : Is(i, f)}
<1>0. \A i, f : Is(i, f) <=> f = [k \in depth - i .. depth |-> IF k = depth THEN last ELSE U(k, f[k + 1])]
  BY DEF IsBack
<1> HIDE DEF Is, U
<1>1. CASE S = {}
  BY <1>1 DEF Is
<1>2. CASE S # {}
  <2>1. PICK i \in S : \A k \in S : i <= k
    BY <1>2, LeastNat, Zenon
  <2>2. i # 0
    <3> DEFINE f == [k \in depth - 0 .. depth |-> last]
    <3>1. \A k \in depth - 0 .. depth : k = depth
      OBVIOUS
    <3>2. f = [k \in depth - 0 .. depth |-> IF k = depth THEN last ELSE U(k, f[k + 1])]
      BY <3>1
    <3>3. Is(0, f)
      BY <1>0, <3>2
    <3> QED BY <2>1, <3>3
  <2>3. i \in Nat /\ i - 1 \in Nat /\ i - 1 \notin S
    BY <2>1, <2>2
  <2>4. PICK g : Is(i - 1, g)
    BY <2>3
  <2> DEFINE f == [k \in depth - i .. depth |-> IF k = depth THEN last ELSE U(k, g[k + 1])]
  <2>5. \A k \in depth - (i - 1) .. depth : g[k] = IF k = depth THEN last ELSE U(k, g[k + 1])
    BY <1>0, <2>3, <2>4
  <2>6. \A k \in depth - (i - 1) .. depth : f[k] = g[k]
    <3>1. \A k \in depth - (i - 1) .. depth : k \in depth - i .. depth
      BY <2>3
    <3> QED BY <2>5, <3>1
  <2>7. \A k \in depth - i .. depth : f[k] = IF k = depth THEN last ELSE U(k, f[k + 1])
    <3>1. \A k \in depth - i .. depth : k # depth => k + 1 \in depth - (i - 1) .. depth
      BY <2>3
    <3> QED BY <2>6, <3>1
  <2> HIDE DEF S
  <2>8. Is(i, f)
    <3>1. DOMAIN f = depth - i .. depth
      OBVIOUS
    <3>2. f = [k \in depth - i .. depth |-> f[k]]
      BY <3>1
    <3> HIDE DEF f
    <3>3. [k \in depth - i .. depth |-> f[k]]
          = [k \in depth - i .. depth |-> IF k = depth THEN last ELSE U(k, f[k + 1])]
      BY <2>7
    <3> QED BY <1>0, <3>2, <3>3
  <2> QED BY <2>1, <2>8 DEF S
<1> QED BY <1>1, <1>2

(* So Back is that solution.                                               *)
LEMMA BackSteps ==
  ASSUME NEW m, NEW at, NEW depth \in Nat, NEW last, NEW turn, NEW inserting, NEW same,
         NEW changed, NEW up, up = Back(m, at, depth, last, turn, inserting, same, changed)
  PROVE  /\ up[depth] = last
         /\ \A k \in 0 .. depth - 1 :
               up[k] = Returned(m, at[k], up[k + 1], turn[k], inserting, same[k], changed[k])
<1>1. depth - depth = 0
  OBVIOUS
<1>2. \E f : f = [k \in 0 .. depth |->
                     IF k = depth THEN last
                     ELSE Returned(m, at[k], f[k + 1], turn[k], inserting, same[k], changed[k])]
  <2>1. PICK f : IsBack(m, at, depth, last, turn, inserting, same, changed, depth, f)
    BY BackExists, Zenon
  <2> QED BY <1>1, <2>1 DEF IsBack, Up
<1>3. up = [k \in 0 .. depth |->
               IF k = depth THEN last
               ELSE Returned(m, at[k], up[k + 1], turn[k], inserting, same[k], changed[k])]
  BY <1>2 DEF Back
<1>4. \A k \in 0 .. depth :
         up[k] = IF k = depth THEN last
                 ELSE Returned(m, at[k], up[k + 1], turn[k], inserting, same[k], changed[k])
  BY <1>3
<1>5. depth \in 0 .. depth /\ \A k \in 0 .. depth - 1 : k \in 0 .. depth /\ k # depth
  OBVIOUS
<1> QED BY <1>4, <1>5

(* The memory between two calls: a search tree with nodes of U only, whose *)
(* places are still those of the calls to come.                            *)
Sound(m, U, at, k) == m \in Memory /\ Ordered(m) /\ Live(m) \subseteq U /\ Line(m, at, k)

(* What the calls at[0] to at[depth - 1] have to work on.                  *)
Calls(m, at, depth, turn, same, changed) ==
    \A k \in 0 .. depth - 1 : /\ Get(m, at[k]) \in Node /\ turn[k] \in Dirs
                              /\ same[k] \in Int /\ changed[k] \in Int

(* The calls keep it.                                                      *)
LEMMA BackSoundAll ==
  ASSUME NEW m, NEW at, NEW depth \in Nat, NEW last, NEW turn, NEW inserting, NEW same,
         NEW changed, NEW U, Sound(last.m, U, at, depth), last.balance \in Int,
         Calls(m, at, depth, turn, same, changed)
  PROVE  \A k \in 0 .. depth :
            /\ Sound(Back(m, at, depth, last, turn, inserting, same, changed)[k].m, U, at, k)
            /\ Back(m, at, depth, last, turn, inserting, same, changed)[k].balance \in Int
<1> DEFINE up == Back(m, at, depth, last, turn, inserting, same, changed)
           OK(k) == Sound(up[k].m, U, at, k) /\ up[k].balance \in Int
           S == {i \in 0 .. depth : ~OK(depth - i)}
<1>1. /\ up[depth] = last
      /\ \A k \in 0 .. depth - 1 :
            up[k] = Returned(m, at[k], up[k + 1], turn[k], inserting, same[k], changed[k])
  BY BackSteps
<1> HIDE DEF up
<1>2. ASSUME NEW k \in 0 .. depth - 1, OK(k + 1) PROVE OK(k)
  <2> DEFINE sub  == up[k + 1]
             c    == Get(m, at[k])
             s    == [sub.m EXCEPT !.balance[c] = sub.balance]
             done == Rebalance(s, at[k], turn[k])
             now  == done.balance[Get(done, at[k])]
  <2>1. up[k] = [m |-> done,
                 balance |-> IF now # m.balance[c] /\ (now # 0) = inserting
                             THEN changed[k] ELSE same[k]]
    BY <1>1 DEF Returned
  <2>2. c \in Node /\ turn[k] \in Dirs /\ same[k] \in Int /\ changed[k] \in Int
    BY DEF Calls
  <2>3. up[k].m = done /\ up[k].balance \in Int
    BY <2>1, <2>2
  <2>4. sub.m \in Memory /\ Ordered(sub.m) /\ Live(sub.m) \subseteq U /\ Line(sub.m, at, k + 1)
        /\ sub.balance \in Int
    BY <1>2 DEF Sound
  <2>5. k \in 0 .. k + 1 /\ k + 1 \in Nat /\ k \in Nat
    OBVIOUS
  <2>6. Line(sub.m, at, k)
    BY <2>4, <2>5, LineShorter, Zenon
  <2> HIDE DEF sub, c
  <2>7. s \in Memory /\ SameTree(sub.m, s)
    BY <2>2, <2>4, SetBalance
  <2> HIDE DEF s
  <2>8. Ordered(s) /\ Live(s) = Live(sub.m)
    BY <2>4, <2>7, SameOrder
  <2>9. Line(s, at, k)
    <3>1. \A j \in 0 .. k : Get(s, at[j]) = Get(sub.m, at[j])
      BY <2>7 DEF SameTree, Get
    <3> QED BY <2>5, <2>6, <3>1, LineKept
  <2>10. done \in Memory /\ Ordered(done) /\ Live(done) \subseteq Live(s) /\ Line(done, at, k)
    BY <2>2, <2>5, <2>7, <2>8, <2>9, RebalanceKeeps
  <2> QED BY <2>3, <2>4, <2>8, <2>10 DEF Sound
<1>3. OK(depth)
  BY <1>1
<1> HIDE DEF OK
<1>4. S = {}
  <2> SUFFICES ASSUME S # {} PROVE FALSE
    OBVIOUS
  <2>1. PICK i \in S : \A j \in S : i <= j
    <3>1. S \subseteq Nat
      OBVIOUS
    <3> QED BY <3>1, LeastNat, Zenon
  <2>2. i \in 0 .. depth /\ ~OK(depth - i)
    BY <2>1
  <2>3. i # 0
    BY <1>3, <2>2
  <2>4. i - 1 \in 0 .. depth /\ ~(i <= i - 1) /\ depth - i \in 0 .. depth - 1
        /\ depth - (i - 1) = (depth - i) + 1
    BY <2>2, <2>3
  <2>5. OK(depth - (i - 1))
    BY <2>1, <2>4
  <2> QED BY <1>2, <2>2, <2>4, <2>5
<1>5. \A k \in 0 .. depth : depth - k \in 0 .. depth /\ depth - (depth - k) = k
  OBVIOUS
<1>6. \A k \in 0 .. depth : OK(k)
  BY <1>4, <1>5
<1> QED BY <1>6 DEF OK, up

(* Up to the first of them.                                                *)
LEMMA BackSound ==
  ASSUME NEW m, NEW at, NEW depth \in Nat, NEW last, NEW turn, NEW inserting, NEW same,
         NEW changed, NEW U, Sound(last.m, U, at, depth), last.balance \in Int,
         Calls(m, at, depth, turn, same, changed)
  PROVE  Sound(Back(m, at, depth, last, turn, inserting, same, changed)[0].m, U, at, 0)
<1>1. 0 \in 0 .. depth
  OBVIOUS
<1> QED BY <1>1, BackSoundAll

----------------------------------------------------------------------------
(* _insert.                                                                *)

(* The places of a line are places.                                        *)
LEMMA LinePlace ==
  ASSUME NEW m \in Memory, NEW at, NEW k \in Nat, Line(m, at, k), NEW j \in 0 .. k
  PROVE  at[j] \in Place /\ (at[j] = Top <=> j = 0)
<1>1. CASE j = 0
  BY <1>1 DEF Line, Place
<1>2. CASE j # 0
  <2>1. j \in 1 .. k
    BY <1>2
  <2>2. at[j] \in Node \X Dirs
    BY <2>1, LineAt
  <2> QED BY <1>2, <2>2, GetIs DEF Place
<1> QED BY <1>1, <1>2

(* A new node on its side of all nodes above it.                           *)
LEMMA InsertBase ==
  ASSUME NEW m \in Memory, Ordered(m), NEW n \in Node, n \notin Live(m),
         \A d \in Dirs : m.child[n][d] = Null,
         NEW at, NEW k \in Nat, Line(m, at, k), Get(m, at[k]) = Null,
         \A j \in 1 .. k : at[j][2] = Side(at[j][1], n),
         NEW r, r = Put(m, at[k], n)
  PROVE  Sound(r, Live(m) \cup {n}, at, k)
<1> DEFINE U == Live(m) \cup {n}
<1>1. at[k] \in Place /\ (at[k] = Top <=> k = 0) /\ n \in Pointer /\ n # Null
  <2>1. k \in 0 .. k
    OBVIOUS
  <2> QED BY <2>1, LinePlace, NType DEF Pointer
<1>2. /\ r \in Memory
      /\ Get(r, at[k]) = n
      /\ at[k] = Top => r.root = n /\ r.child = m.child
      /\ at[k] # Top => /\ r.root = m.root
                        /\ \A w \in Node, f \in Dirs :
                              r.child[w][f] = IF w = at[k][1] /\ f = at[k][2] THEN n
                                              ELSE m.child[w][f]
  BY <1>1, PutIs
<1>3. Live(m) \subseteq Node /\ Closed(m, Live(m)) /\ m.root \in Live(m) \cup {Null}
  BY LiveIs
<1>4. ASSUME NEW w \in Node, NEW f \in Dirs
      PROVE  r.child[w][f] = m.child[w][f] \/ r.child[w][f] = n
  BY <1>2
<1>5. ASSUME NEW f \in Dirs PROVE r.child[n][f] = Null
  <2>1. CASE k = 0
    BY <1>1, <1>2, <2>1
  <2>2. CASE k # 0
    <3>1. k \in 1 .. k
      BY <2>2
    <3>2. at[k][1] \in Live(m)
      BY <3>1, LineAt
    <3> QED BY <1>1, <1>2, <2>2, <3>2
  <2> QED BY <2>1, <2>2
<1>6. ASSUME NEW C, C \subseteq Live(m), Closed(m, C) PROVE Closed(r, C \cup {n})
  <2> SUFFICES ASSUME NEW w \in C \cup {n}, NEW f \in Dirs
               PROVE  r.child[w][f] \in (C \cup {n}) \cup {Null}
    BY DEF Closed
  <2>1. CASE w = n
    BY <1>5, <2>1
  <2>2. CASE w # n
    <3>1. w \in C /\ w \in Node
      BY <1>3, <1>6, <2>2
    <3>2. m.child[w][f] \in C \cup {Null}
      BY <1>6, <3>1 DEF Closed
    <3> QED BY <1>4, <3>1, <3>2
  <2> QED BY <2>1, <2>2
<1>7. Live(r) \subseteq U
  <2>1. Closed(r, U)
    BY <1>3, <1>6
  <2>2. r.root \in U \cup {Null}
    BY <1>2, <1>3
  <2>3. r.root \in Pointer
    BY <1>2, Fields
  <2> HIDE DEF U
  <2> QED BY <1>2, <2>1, <2>2, <2>3, ReachIs, Zenon DEF Live
<1>8. Line(r, at, k)
  <2>1. ASSUME NEW j \in 0 .. k, j # k PROVE Get(r, at[j]) = Get(m, at[j])
    <3>1. j + 1 \in 1 .. k /\ (j + 1) - 1 = j
      BY <2>1
    <3>2. Get(m, at[j]) \in Node
      BY <3>1 DEF Line
    <3>3. at[j] # at[k]
      BY <3>2, NType
    <3>4. k # 0
      BY <2>1
    <3>5. at[k] # Top
      BY <1>1, <3>4
    <3>6. CASE j = 0
      <4>1. at[j] = Top
        BY <3>6 DEF Line
      <4> QED BY <1>2, <3>5, <4>1, GetIs
    <3>7. CASE j # 0
      <4>1. j \in 1 .. k /\ k \in 1 .. k
        BY <3>4, <3>7
      <4>2. at[j] \in Node \X Dirs /\ at[k] \in Node \X Dirs
        BY <4>1, LineAt
      <4>3. /\ Get(r, at[j]) = r.child[at[j][1]][at[j][2]]
            /\ Get(m, at[j]) = m.child[at[j][1]][at[j][2]]
            /\ at[j][1] \in Node /\ at[j][2] \in Dirs
        BY <4>2, GetIs
      <4>4. ~(at[j][1] = at[k][1] /\ at[j][2] = at[k][2])
        BY <3>3, <4>2
      <4> QED BY <1>2, <3>5, <4>3, <4>4
    <3> QED BY <3>6, <3>7
  <2> QED BY <2>1, LineKept
<1>9. ASSUME NEW v \in Live(r), NEW d \in Dirs, NEW x \in Reach(r, r.child[v][d])
      PROVE  On(d, x, v)
  <2>1. v # n
    <3>1. CASE v = n
      BY <1>2, <1>5, <1>9, <3>1, ReachNull
    <3> QED BY <3>1
  <2>2. v \in Live(m) /\ v \in Node
    BY <1>3, <1>7, <2>1
  <2> DEFINE C == Reach(m, m.child[v][d])
  <2>3. C \subseteq Live(m) /\ Closed(m, C) /\ m.child[v][d] \in C \cup {Null}
        /\ r.child[v][d] \in Pointer
    BY <1>2, <2>2, LiveIs, ReachIs, Fields
  <2>4. x \in C \cup {n}
    <3>1. Closed(r, C \cup {n}) /\ r.child[v][d] \in (C \cup {n}) \cup {Null}
      BY <1>4, <1>6, <2>2, <2>3
    <3> HIDE DEF C
    <3> QED BY <1>2, <1>9, <2>3, <3>1, ReachIs
  <2>5. CASE x # n
    BY <2>2, <2>4, <2>5 DEF Ordered
  <2>6. CASE x = n
    <3>1. \E i \in 1 .. k : at[i][1] = v /\ at[i][2] = d
      <4>1. k # 0
        <5>1. CASE k = 0
          <6>1. m.root = Null
            BY <5>1, GetIs DEF Line
          <6>2. Live(m) = {}
            BY <6>1, ReachNull DEF Live
          <6> QED BY <2>2, <6>2
        <5> QED BY <5>1
      <4>2. k \in 1 .. k /\ k - 1 \in Nat /\ k - 1 \in 0 .. k /\ at[k] # Top
            /\ \A i \in 1 .. k - 1 : i \in 1 .. k
        BY <1>1, <4>1
      <4>3. CASE at[k][1] = v /\ at[k][2] = d
        BY <4>2, <4>3
      <4>4. CASE ~(at[k][1] = v /\ at[k][2] = d)
        <5>1. r.child[v][d] = m.child[v][d]
          BY <1>2, <2>2, <4>2, <4>4
        <5>2. at[k][1] \in C
          <6> SUFFICES ASSUME at[k][1] \notin C PROVE FALSE
            OBVIOUS
          <6>1. ASSUME NEW w \in C, NEW f \in Dirs PROVE r.child[w][f] \in C \cup {Null}
            <7>1. r.child[w][f] = m.child[w][f]
              BY <1>2, <1>3, <2>3, <4>2
            <7> QED BY <2>3, <7>1 DEF Closed
          <6>2. Closed(r, C)
            BY <6>1 DEF Closed
          <6>3. r.child[v][d] \in C \cup {Null}
            BY <2>3, <5>1
          <6> HIDE DEF C
          <6>4. Reach(r, r.child[v][d]) \subseteq C
            BY <1>2, <2>3, <6>2, <6>3, ReachIs
          <6> QED BY <1>9, <2>3, <2>6, <6>4
        <5>3. at[k][1] = Get(m, at[k - 1])
          BY <4>2, LineAt
        <5>4. Line(m, at, k - 1)
          BY <4>2, LineShorter, Zenon
        <5>5. \E i \in 1 .. k - 1 : at[i][1] = v /\ at[i][2] = d
          BY <2>2, <4>2, <5>2, <5>3, <5>4, LineSpot
        <5> QED BY <4>2, <5>5
      <4> QED BY <4>3, <4>4
    <3>2. d = Side(v, n)
      BY <3>1
    <3> QED BY <2>1, <2>2, <2>6, <3>2, OneSide
  <2> QED BY <2>5, <2>6
<1> QED BY <1>2, <1>7, <1>8, <1>9 DEF Sound, Ordered

(* The arguments of the calls.                                             *)
LEMMA Arguments ==
  ASSUME NEW m \in Memory, NEW p \in Place
  PROVE  /\ Dir(p) \in Dirs /\ AsBalance(Dir(p)) \in Int /\ ParentBalance(m, p) \in Int
         /\ ParentBalance(m, p) + AsBalance(Dir(p)) \in Int
         /\ ParentBalance(m, p) - AsBalance(Dir(p)) \in Int
<1>1. Dir(p) \in Dirs /\ ParentBalance(m, p) \in Int
  <2>1. CASE p = Top
    BY <2>1 DEF Dir, ParentBalance, Dirs
  <2>2. CASE p # Top
    <3>1. p \in Node \X Dirs
      BY <2>2 DEF Place
    <3>2. p[1] \in Node /\ p[2] \in Dirs
      BY <3>1
    <3> QED BY <2>2, <3>2, Fields DEF Dir, ParentBalance
  <2> QED BY <2>1, <2>2
<1>2. AsBalance(Dir(p)) \in Int
  BY <1>1, Opposite
<1> QED BY <1>1, <1>2

(* How _insert goes: down to an empty place, hangs n in there, and back.   *)
Inserting(m, n, at, depth, last, turn, same, changed) ==
    /\ depth \in Nat /\ Line(m, at, depth) /\ Get(m, at[depth]) = Null
    /\ \A j \in 0 .. depth - 1 : Get(m, at[j]) \in Live(m)
    /\ \A j \in 1 .. depth : at[j][2] = Side(at[j][1], n)
    /\ \A k \in 0 .. depth : /\ same[k] = ParentBalance(m, at[k])
                             /\ changed[k] = same[k] + AsBalance(Dir(at[k]))
    /\ last.m = Put(m, at[depth], n) /\ last.balance = changed[depth] /\ last.balance \in Int
    /\ Calls(m, at, depth, turn, same, changed)
    /\ Insert(m, n) = Back(m, at, depth, last, turn, TRUE, same, changed)[0].m

(* That is how it goes.                                                    *)
LEMMA InsertCalls ==
  ASSUME NEW m \in Memory, Ordered(m), NEW n \in Node
  PROVE  \E at, depth, last, turn, same, changed :
            Inserting(m, n, at, depth, last, turn, same, changed)
<1> DEFINE at      == Descent(m, Top, Toward(n))
           depth   == Depth(m, at, {Null})
           same    == [k \in 0 .. depth |-> ParentBalance(m, at[k])]
           changed == [k \in 0 .. depth |-> same[k] + AsBalance(Dir(at[k]))]
           last    == [m |-> Put(m, at[depth], n), balance |-> changed[depth]]
           turn    == [k \in 0 .. depth |-> Dir(at[k + 1])]
<1>1. Insert(m, n) = Back(m, at, depth, last, turn, TRUE, same, changed)[0].m
  BY DEF Insert
<1>2. Toward(n) \in [Node -> Dirs]
  BY NType DEF Toward, Side, Dirs
<1>3. /\ depth \in Nat /\ Get(m, at[depth]) \in {Null}
      /\ \A j \in 0 .. depth - 1 : Get(m, at[j]) \in Live(m)
      /\ Line(m, at, depth) /\ \A j \in 1 .. depth : at[j][2] = Toward(n)[at[j][1]]
  BY <1>2, DescentEnds
<1> HIDE DEF at, depth
<1>4. \A j \in 1 .. depth : at[j][2] = Side(at[j][1], n)
  BY <1>3, LineAt DEF Toward
<1>5. ASSUME NEW k \in 0 .. depth
      PROVE  /\ Dir(at[k]) \in Dirs /\ same[k] \in Int /\ changed[k] \in Int
             /\ same[k] = ParentBalance(m, at[k])
             /\ changed[k] = same[k] + AsBalance(Dir(at[k]))
  <2>1. at[k] \in Place
    BY <1>3, LinePlace
  <2> QED BY <2>1, Arguments
<1>6. ASSUME NEW k \in 0 .. depth - 1
      PROVE  /\ Get(m, at[k]) \in Node /\ turn[k] \in Dirs
             /\ same[k] \in Int /\ changed[k] \in Int
  <2>1. k \in 0 .. depth /\ k + 1 \in 0 .. depth
    BY <1>3
  <2> QED BY <1>3, <1>5, <2>1, LiveIs
<1>7. /\ last.m = Put(m, at[depth], n) /\ last.balance = changed[depth]
      /\ last.balance \in Int
  <2>1. depth \in 0 .. depth
    BY <1>3
  <2> QED BY <1>5, <2>1
<1> HIDE DEF last, same, changed, turn
<1>8. Calls(m, at, depth, turn, same, changed)
  BY <1>6 DEF Calls
<1>9. Inserting(m, n, at, depth, last, turn, same, changed)
  BY <1>1, <1>3, <1>4, <1>5, <1>7, <1>8 DEF Inserting
<1> QED BY <1>9

(* The memory it starts back with.                                         *)
LEMMA InsertStarts ==
  ASSUME NEW m \in Memory, Ordered(m), NEW n \in Node, n \notin Live(m),
         \A d \in Dirs : m.child[n][d] = Null,
         NEW at, NEW depth, NEW last, NEW turn, NEW same, NEW changed,
         Inserting(m, n, at, depth, last, turn, same, changed)
  PROVE  Sound(last.m, Live(m) \cup {n}, at, depth)
<1>1. /\ depth \in Nat /\ Line(m, at, depth) /\ Get(m, at[depth]) = Null
      /\ \A j \in 1 .. depth : at[j][2] = Side(at[j][1], n)
      /\ last.m = Put(m, at[depth], n)
  BY DEF Inserting
<1> QED BY <1>1, InsertBase

(* _insert leaves a search tree, with n and nothing else that was not      *)
(* there.                                                                  *)
LEMMA InsertKeeps ==
  ASSUME NEW m \in Memory, Ordered(m), NEW n \in Node, n \notin Live(m),
         \A d \in Dirs : m.child[n][d] = Null, NEW r, r = Insert(m, n)
  PROVE  r \in Memory /\ Ordered(r) /\ Live(r) \subseteq Live(m) \cup {n}
<1>1. PICK at, depth, last, turn, same, changed :
         Inserting(m, n, at, depth, last, turn, same, changed)
  BY InsertCalls, Zenon
<1>2. Sound(last.m, Live(m) \cup {n}, at, depth)
  BY <1>1, InsertStarts, Zenon
<1>3. /\ depth \in Nat /\ last.balance \in Int /\ Calls(m, at, depth, turn, same, changed)
      /\ r = Back(m, at, depth, last, turn, TRUE, same, changed)[0].m
  BY <1>1 DEF Inserting
<1>4. Sound(Back(m, at, depth, last, turn, TRUE, same, changed)[0].m, Live(m) \cup {n}, at, 0)
  BY <1>2, <1>3, BackSound, Zenon
<1> QED BY <1>3, <1>4 DEF Sound

----------------------------------------------------------------------------
(* _delete.                                                                *)

(* From m to r, the place p of the node c has come to hold v, one below it *)
(* or NULL, and what is not lost by that is as it was.                     *)
Spliced(m, r, p, c, v) ==
    /\ r \in Memory /\ Get(r, p) = v /\ (p # Top => r.root = m.root)
    /\ \A w \in (Live(m) \ Reach(m, c)) \cup Reach(m, v), d \in Dirs :
          <<w, d>> # p => r.child[w][d] = m.child[w][d]

(* It leaves a search tree, without c.                                     *)
LEMMA SplicedKeeps ==
  ASSUME NEW m \in Memory, Ordered(m), NEW at, NEW k \in Nat, Line(m, at, k),
         NEW c \in Live(m), c = Get(m, at[k]), NEW v \in Reach(m, c) \cup {Null}, v # c,
         NEW r, Spliced(m, r, at[k], c, v)
  PROVE  Sound(r, Live(m) \ {c}, at, k)
<1> DEFINE S == (Live(m) \ Reach(m, c)) \cup Reach(m, v)
<1>0. /\ r \in Memory /\ Get(r, at[k]) = v /\ (at[k] # Top => r.root = m.root)
      /\ \A w \in S, d \in Dirs : <<w, d>> # at[k] => r.child[w][d] = m.child[w][d]
  BY DEF Spliced
<1>1. c \in Node /\ c \in Reach(m, c) /\ Reach(m, c) \subseteq Live(m) /\ c \in Pointer
  BY LiveIs DEF Pointer
<1>2. v \in Pointer /\ Reach(m, v) \subseteq Reach(m, c) /\ c \notin Reach(m, v)
      /\ v \in Reach(m, v) \cup {Null} /\ Closed(m, Reach(m, v))
  <2>1. CASE v = Null
    BY <2>1, ReachNull DEF Pointer, Closed
  <2>2. CASE v # Null
    <3>1. v \in Reach(m, c) /\ v \in Node /\ v \in Pointer /\ v \in Live(m)
      BY <1>1, <2>2, LiveIs DEF Pointer
    <3>2. PICK e \in Dirs : v \in Reach(m, m.child[c][e])
      BY <1>1, <3>1, ReachBelow
    <3>3. m.child[c][e] \in Pointer
      BY <1>1, Fields
    <3>4. Reach(m, v) \subseteq Reach(m, m.child[c][e])
      BY <3>2, <3>3, ReachWithin
    <3>5. c \notin Reach(m, m.child[c][e])
      BY NotBelowItself
    <3> QED BY <1>1, <3>1, <3>4, <3>5, ReachWithin, ReachIs
  <2> QED BY <2>1, <2>2
<1>3. S \subseteq Live(m) /\ c \notin S /\ S = (Live(m) \ Reach(m, c)) \cup Reach(m, v)
  BY <1>1, <1>2
<1> HIDE DEF S
<1>4. k \in 0 .. k
  OBVIOUS
<1>5. /\ k = 0 => at[k] = Top /\ m.root = c /\ Reach(m, c) = Live(m)
      /\ k # 0 => /\ at[k] \in Node \X Dirs /\ at[k][1] \in Live(m) /\ at[k][2] \in Dirs
                  /\ m.child[at[k][1]][at[k][2]] = c /\ at[k][1] \notin Reach(m, c)
                  /\ at[k] # Top /\ r.child[at[k][1]][at[k][2]] = v
  <2>1. CASE k = 0
    BY <2>1, GetIs DEF Line, Live
  <2>2. CASE k # 0
    <3>1. k \in 1 .. k
      BY <2>2
    <3>2. at[k] \in Node \X Dirs /\ at[k][1] \in Live(m) /\ at[k][2] \in Dirs
          /\ m.child[at[k][1]][at[k][2]] = c /\ at[k][1] \notin Reach(m, c)
      BY <3>1, LineAt, LineAbove
    <3> QED BY <1>0, <2>2, <3>2, GetIs
  <2> QED BY <2>1, <2>2
<1>6. ASSUME NEW w \in S, NEW d \in Dirs
      PROVE  /\ r.child[w][d] \in S \cup {Null}
             /\ r.child[w][d] \in Reach(m, m.child[w][d]) \cup {Null}
  <2>1. w \in Live(m) /\ w \in Node
    BY <1>3, LiveIs
  <2>2. CASE <<w, d>> = at[k]
    <3>1. k # 0
      BY <1>5, <2>2 DEF Top
    <3>2. at[k][1] = w /\ at[k][2] = d
      BY <2>2
    <3>3. r.child[w][d] = v /\ m.child[w][d] = c
      BY <1>5, <3>1, <3>2
    <3> QED BY <1>2, <1>3, <3>3
  <2>3. CASE <<w, d>> # at[k]
    <3>1. r.child[w][d] = m.child[w][d]
      BY <1>0, <2>3
    <3>2. m.child[w][d] \in Reach(m, m.child[w][d]) \cup {Null}
      BY <2>1, LiveIs, ReachIs
    <3>3. m.child[w][d] \in S \cup {Null}
      <4>1. CASE w \in Reach(m, v)
        BY <1>2, <1>3, <4>1 DEF Closed
      <4>2. CASE w \notin Reach(m, v)
        <5>1. w \notin Reach(m, c) /\ m.child[w][d] \in Live(m) \cup {Null}
          BY <1>3, <2>1, <4>2, LiveIs
        <5>2. CASE m.child[w][d] \in Reach(m, c)
          <6>1. m.child[w][d] = c
            BY <2>1, <5>1, <5>2, EntersAtTop
          <6>2. k # 0
            BY <1>5, <2>1, <5>1
          <6>3. w = at[k][1] /\ d = at[k][2]
            <7> DEFINE x == at[k][1]
                       f == at[k][2]
            <7>1. x \in Live(m) /\ f \in Dirs /\ m.child[x][f] = c /\ c # Null
              BY <1>1, <1>5, <6>2, NType
            <7> HIDE DEF x, f
            <7>2. w = x /\ d = f
              BY <2>1, <6>1, <7>1, UniqueParent
            <7> QED BY <7>2 DEF x, f
          <6>4. <<w, d>> = at[k]
            BY <1>5, <6>2, <6>3
          <6> QED BY <2>3, <6>4
        <5>3. CASE m.child[w][d] \notin Reach(m, c)
          BY <1>3, <5>1, <5>3
        <5> QED BY <5>2, <5>3
      <4> QED BY <4>1, <4>2
    <3> QED BY <3>1, <3>2, <3>3
  <2> QED BY <2>2, <2>3
<1>7. r.root \in S \cup {Null}
  <2>1. CASE k = 0
    BY <1>0, <1>2, <1>3, <1>5, <2>1, GetIs
  <2>2. CASE k # 0
    <3>1. r.root = m.root /\ m.root \in Live(m) \cup {Null}
      BY <1>0, <1>5, <2>2, LiveIs
    <3>2. m.root \notin Reach(m, c)
      <4> SUFFICES ASSUME m.root \in Reach(m, c) PROVE FALSE
        OBVIOUS
      <4>1. Live(m) \subseteq Reach(m, c)
        BY <1>1, ReachWithin DEF Live
      <4> QED BY <1>5, <2>2, <4>1
    <3> QED BY <1>3, <3>1, <3>2
  <2> QED BY <2>1, <2>2
<1>8. Line(r, at, k)
  <2>1. ASSUME NEW j \in 0 .. k, j # k PROVE Get(r, at[j]) = Get(m, at[j])
    <3>1. j + 1 \in 1 .. k /\ (j + 1) - 1 = j /\ k # 0
      BY <2>1
    <3>2. at[j + 1][1] = Get(m, at[j]) /\ at[j + 1][1] \notin Reach(m, c)
      BY <3>1, LineAt, LineAbove
    <3>3. at[j] # at[k]
      BY <1>1, <3>2
    <3>4. CASE j = 0
      <4>1. at[j] = Top
        BY <3>4 DEF Line
      <4> QED BY <1>0, <1>5, <3>1, <4>1, GetIs
    <3>5. CASE j # 0
      <4>1. j \in 1 .. k
        BY <3>5
      <4>2. at[j] \in Node \X Dirs /\ at[j][1] \in Live(m) /\ at[j][1] \notin Reach(m, c)
        BY <4>1, LineAt, LineAbove
      <4>3. /\ Get(r, at[j]) = r.child[at[j][1]][at[j][2]]
            /\ Get(m, at[j]) = m.child[at[j][1]][at[j][2]]
            /\ at[j][2] \in Dirs /\ at[j][1] \in S
        BY <1>3, <4>2, GetIs
      <4>4. <<at[j][1], at[j][2]>> # at[k]
        BY <1>5, <3>1, <3>3, <4>2
      <4> QED BY <1>0, <4>3, <4>4
    <3> QED BY <3>4, <3>5
  <2> QED BY <2>1, LineKept
<1>9. Ordered(r) /\ Live(r) \subseteq S
  <2>1. Closed(r, S) /\ S \in SUBSET Live(m)
    BY <1>3, <1>6 DEF Closed
  <2> QED BY <1>0, <1>6, <1>7, <2>1, Shrunk
<1> QED BY <1>0, <1>3, <1>8, <1>9 DEF Sound

(* A leaf is removed.                                                      *)
LEMMA LeafRemoved ==
  ASSUME NEW m \in Memory, Ordered(m), NEW at, NEW k \in Nat, Line(m, at, k),
         NEW c \in Live(m), c = Get(m, at[k]),
         NEW s \in Memory, SameTree(m, s), NEW r, r = Put(s, at[k], Null)
  PROVE  Sound(r, Live(m) \ {c}, at, k)
<1> DEFINE S == (Live(m) \ Reach(m, c)) \cup Reach(m, Null)
<1>1. c \in Node /\ Null # c /\ Null \in Pointer /\ Live(m) \subseteq Node /\ k \in 0 .. k
  BY LiveIs, NType DEF Pointer
<1>2. at[k] \in Place /\ s.root = m.root /\ s.child = m.child
  BY <1>1, LinePlace DEF SameTree
<1>3. /\ r \in Memory /\ Get(r, at[k]) = Null
      /\ at[k] = Top => r.child = m.child
      /\ at[k] # Top => /\ r.root = m.root
                        /\ \A n \in Node, f \in Dirs :
                              r.child[n][f] = IF n = at[k][1] /\ f = at[k][2] THEN Null
                                              ELSE m.child[n][f]
  BY <1>1, <1>2, PutIs
<1>4. S \subseteq Node
  BY <1>1, ReachNull
<1>5. ASSUME NEW w \in S, NEW d \in Dirs, <<w, d>> # at[k] PROVE r.child[w][d] = m.child[w][d]
  <2>1. CASE at[k] = Top
    BY <1>3, <2>1
  <2>2. CASE at[k] # Top
    <3>1. at[k] \in Node \X Dirs
      BY <1>2, <2>2 DEF Place
    <3>2. ~(w = at[k][1] /\ d = at[k][2])
      BY <1>5, <3>1
    <3> QED BY <1>3, <1>4, <2>2, <3>2
  <2> QED BY <2>1, <2>2
<1>6. Spliced(m, r, at[k], c, Null)
  BY <1>3, <1>5 DEF Spliced
<1>7. Null \in Reach(m, c) \cup {Null}
  OBVIOUS
<1> QED BY <1>1, <1>6, <1>7, SplicedKeeps

----------------------------------------------------------------------------
(* _del_with_swap.                                                         *)

(* A line to a node, and from there on the places b below one of its       *)
(* sides.                                                                  *)
Joined(at, k, b) == [i \in Nat |-> IF i <= k THEN at[i] ELSE b[i - (k + 1)]]

(* The places of either.                                                   *)
LEMMA JoinedIs ==
  ASSUME NEW at, NEW k \in Nat, NEW b
  PROVE  /\ \A i \in 0 .. k : Joined(at, k, b)[i] = at[i]
         /\ \A j \in Nat : Joined(at, k, b)[(k + 1) + j] = b[j]
<1>1. \A i \in 0 .. k : i \in Nat /\ i <= k
  OBVIOUS
<1>2. \A j \in Nat : (k + 1) + j \in Nat /\ ~((k + 1) + j <= k) /\ ((k + 1) + j) - (k + 1) = j
  OBVIOUS
<1> QED BY <1>1, <1>2 DEF Joined

(* They are a line as long as they hold nodes.                             *)
LEMMA JoinedLine ==
  ASSUME NEW m \in Memory, NEW at, NEW k \in Nat, Line(m, at, k),
         NEW c \in Node, c = Get(m, at[k]), NEW side \in Dirs, NEW to \in [Node -> Dirs],
         NEW b, b = Descent(m, <<c, side>>, to),
         NEW l \in 0 .. N, \A j \in 0 .. l - 1 : Get(m, b[j]) # Null
  PROVE  Line(m, Joined(at, k, b), (k + 1) + l)
<1> DEFINE long == Joined(at, k, b)
           S == {j \in 0 .. l : ~Line(m, long, (k + 1) + j)}
<1>1. b[0] = <<c, side>> /\ \A j \in 1 .. N : b[j] = Below(m, b[j - 1], to)
  BY DescentSteps
<1>2. N \in Nat
  BY NType
<1>3. (\A i \in 0 .. k : long[i] = at[i]) /\ \A j \in Nat : long[(k + 1) + j] = b[j]
  BY JoinedIs
<1> HIDE DEF long
<1>4. Line(m, long, k + 1)
  <2>1. long[0] = Top
    <3>1. 0 \in 0 .. k
      OBVIOUS
    <3> QED BY <1>3, <3>1 DEF Line
  <2>2. long[k + 1] = <<c, side>> /\ long[k] = at[k]
    <3>1. 0 \in Nat /\ (k + 1) + 0 = k + 1 /\ k \in 0 .. k
      OBVIOUS
    <3> QED BY <1>1, <1>3, <3>1
  <2>3. ASSUME NEW j \in 1 .. k + 1
        PROVE  /\ Get(m, long[j - 1]) \in Node
               /\ long[j] \in Node \X Dirs /\ long[j][1] = Get(m, long[j - 1])
    <3>1. CASE j = k + 1
      <4>1. j - 1 = k
        BY <3>1
      <4> QED BY <2>2, <3>1, <4>1
    <3>2. CASE j # k + 1
      <4>1. j \in 1 .. k /\ j \in 0 .. k /\ j - 1 \in 0 .. k
        BY <3>2
      <4> QED BY <1>3, <4>1 DEF Line
    <3> QED BY <3>1, <3>2
  <2> QED BY <2>1, <2>3 DEF Line
<1>5. S = {}
  <2> SUFFICES ASSUME S # {} PROVE FALSE
    OBVIOUS
  <2>1. PICK j \in S : \A i \in S : j <= i
    <3>1. S \subseteq Nat
      BY <1>2
    <3> QED BY <3>1, LeastNat, Zenon
  <2>2. j \in 0 .. l /\ ~Line(m, long, (k + 1) + j)
    BY <2>1
  <2>3. j # 0
    BY <1>4, <2>2
  <2> DEFINE i == (k + 1) + j
  <2>4. /\ j \in 1 .. N /\ j - 1 \in 0 .. l /\ ~(j <= j - 1) /\ j - 1 \in 0 .. l - 1
        /\ j \in Nat /\ j - 1 \in Nat /\ i - 1 = (k + 1) + (j - 1) /\ i \in Nat /\ i - 1 \in Nat
    BY <1>2, <2>2, <2>3
  <2> HIDE DEF i
  <2>5. Line(m, long, i - 1)
    BY <2>1, <2>4
  <2> DEFINE x == Get(m, b[j - 1])
  <2>6. x = Get(m, long[i - 1])
    BY <1>3, <2>4
  <2>7. x \in Node
    <3>1. x \in Live(m) \cup {Null}
      <4>1. i - 1 \in 0 .. i - 1
        BY <2>4
      <4> QED BY <2>4, <2>5, <2>6, <4>1, LineLive
    <3> QED BY <2>4, <3>1, LiveIs
  <2>8. long[i] = <<x, to[x]>> /\ to[x] \in Dirs
    BY <1>1, <1>3, <2>4, <2>7 DEF Below, i
  <2> HIDE DEF x
  <2>9. long[i] \in Node \X Dirs /\ long[i][1] = x
    BY <2>7, <2>8
  <2>10. \A n \in 1 .. i : n = i \/ n \in 1 .. i - 1
    BY <2>4
  <2>11. Line(m, long, i)
    BY <2>5, <2>6, <2>7, <2>9, <2>10 DEF Line
  <2> QED BY <2>2, <2>11 DEF i
<1>6. l \in 0 .. l
  BY <1>2
<1> QED BY <1>5, <1>6 DEF long

(* Where _del_with_swap goes: to the node a, which is below c, past nodes  *)
(* that are below c and not below a.                                       *)
Path(m, c, side, b, l, a) ==
    /\ l \in Nat /\ b[0] = <<c, side>>
    /\ a \in Node /\ a \in Reach(m, c) /\ a # c
    /\ \A j \in 0 .. l : /\ b[j] \in Node \X Dirs /\ Get(m, b[j]) \in Node
                         /\ b[j][1] \in Reach(m, c) \ Reach(m, a)
                         /\ j # 0 => b[j][1] = Get(m, b[j - 1])

(* It goes there.                                                          *)
LEMMA Farthest ==
  ASSUME NEW m \in Memory, Ordered(m), NEW at, NEW k \in Nat, Line(m, at, k),
         NEW c \in Node, c = Get(m, at[k]), NEW side \in Dirs, m.child[c][side] # Null,
         NEW to \in [Node -> Dirs], NEW b, b = Descent(m, <<c, side>>, to),
         NEW l, l = Depth(m, b, {Null}) - 1, NEW a, a = Get(m, b[l])
  PROVE  Path(m, c, side, b, l, a)
<1> DEFINE long == Joined(at, k, b)
<1>1. N \in Nat /\ Null \notin Node
  BY NType
<1>2. (\A i \in 0 .. k : long[i] = at[i]) /\ \A j \in Nat : long[(k + 1) + j] = b[j]
  BY JoinedIs
<1>3. ASSUME NEW i \in 0 .. N, \A j \in 0 .. i - 1 : Get(m, b[j]) # Null
      PROVE  Line(m, long, (k + 1) + i)
  BY <1>3, JoinedLine
<1> HIDE DEF long
<1>4. ASSUME NEW i \in 0 .. N, \A j \in 0 .. i - 1 : Get(m, b[j]) # Null, Get(m, b[i]) # Null
      PROVE  Get(m, b[i]) \in Node /\ (k + 1) + i < N
  <2>1. (k + 1) + i \in Nat /\ (k + 1) + i \in 0 .. (k + 1) + i /\ i \in Nat
    BY <1>1
  <2>2. Line(m, long, (k + 1) + i) /\ long[(k + 1) + i] = b[i]
    BY <1>2, <1>3, <1>4, <2>1
  <2>3. Get(m, b[i]) \in Node
    BY <1>4, <2>1, <2>2, LineLive, LiveIs
  <2> DEFINE n == (k + 1) + i
  <2>4. n \in Nat /\ Line(m, long, n) /\ Get(m, long[n]) \in Node
    BY <2>1, <2>2, <2>3
  <2> HIDE DEF n
  <2>5. n < N
    BY <2>4, LineBound
  <2> QED BY <2>3, <2>5 DEF n
<1>5. \E i \in 0 .. N : Get(m, b[i]) \in {Null}
  <2> SUFFICES ASSUME \A i \in 0 .. N : Get(m, b[i]) # Null PROVE FALSE
    OBVIOUS
  <2>1. N \in 0 .. N /\ \A j \in 0 .. N - 1 : j \in 0 .. N
    BY <1>1
  <2>2. (k + 1) + N < N
    BY <1>4, <2>1
  <2> QED BY <1>1, <2>2
<1> DEFINE e == Depth(m, b, {Null})
<1>6. PICK w \in 0 .. N : Get(m, b[w]) \in {Null}
  BY <1>5
<1>7. /\ e \in 0 .. N /\ Get(m, b[e]) \in {Null}
      /\ \A j \in 0 .. e - 1 : Get(m, b[j]) \notin {Null}
  BY <1>6, DepthIs
<1> HIDE DEF e
<1>8. b[0] = <<c, side>>
  BY DescentSteps
<1>9. e # 0
  <2>1. Get(m, <<c, side>>) = m.child[c][side]
    BY GetChild
  <2>2. Get(m, b[0]) # Null
    BY <1>8, <2>1, Zenon
  <2> QED BY <1>7, <2>2
<1>10. l = e - 1
  BY DEF e
<1> DEFINE n == (k + 1) + l
<1>11. l \in Nat /\ l \in 0 .. N /\ l \in 0 .. l /\ n \in Nat /\ k \in 0 .. n
  BY <1>1, <1>7, <1>9, <1>10
<1>12. ASSUME NEW j \in 0 .. l
       PROVE  /\ j \in 0 .. N /\ j \in Nat /\ Get(m, b[j]) \in Node
              /\ (k + 1) + j \in 1 .. n /\ ((k + 1) + j) - 1 \in 0 .. n
              /\ ((k + 1) + j) - 1 \in Nat /\ k \in 0 .. ((k + 1) + j) - 1
              /\ ((k + 1) + j) - 1 = (k + 1) + (j - 1)
  <2>1. j \in 0 .. N /\ j \in Nat /\ j \in 0 .. e - 1
    BY <1>1, <1>10, <1>11
  <2>2. \A h \in 0 .. j - 1 : h \in 0 .. e - 1
    BY <1>7, <2>1
  <2>3. Get(m, b[j]) \in Node
    BY <1>4, <1>7, <2>1, <2>2
  <2>4. /\ (k + 1) + j \in 1 .. n /\ ((k + 1) + j) - 1 \in 0 .. n
        /\ ((k + 1) + j) - 1 \in Nat /\ k \in 0 .. ((k + 1) + j) - 1
        /\ ((k + 1) + j) - 1 = (k + 1) + (j - 1)
    BY <1>11, <2>1
  <2> QED BY <2>1, <2>3, <2>4
<1>13. Line(m, long, n) /\ Get(m, long[n]) = a /\ Get(m, long[k]) = c
  <2>1. k \in 0 .. k
    OBVIOUS
  <2>2. Line(m, long, n)
    <3>1. \A h \in 0 .. l - 1 : h \in 0 .. e - 1
      BY <1>10, <1>11
    <3> QED BY <1>3, <1>7, <1>11, <3>1
  <2> QED BY <1>2, <1>11, <2>1, <2>2
<1> HIDE DEF n
<1>14. a \in Node /\ a \in Reach(m, a)
  <2>1. a \in Node
    BY <1>11, <1>12
  <2>2. a \in Pointer /\ a # Null
    BY <1>1, <2>1 DEF Pointer
  <2> QED BY <2>1, <2>2, ReachIs
<1>15. Reach(m, a) \subseteq Reach(m, c)
  BY <1>11, <1>13, LineNested
<1>16. ASSUME NEW j \in 0 .. l
       PROVE  /\ b[j] \in Node \X Dirs /\ b[j][1] \in Reach(m, c) \ Reach(m, a)
              /\ j # 0 => b[j][1] = Get(m, b[j - 1])
  <2> DEFINE i == (k + 1) + j
  <2>1. i \in 1 .. n /\ long[i] = b[j] /\ i - 1 \in 0 .. n /\ i - 1 \in Nat /\ k \in 0 .. i - 1
    BY <1>2, <1>12
  <2>2. j # 0 => long[i - 1] = b[j - 1]
    <3>1. j # 0 => j - 1 \in Nat
      OBVIOUS
    <3> QED BY <1>2, <1>12, <3>1
  <2> HIDE DEF i
  <2>3. b[j] \in Node \X Dirs /\ b[j][1] \in Live(m) /\ b[j][1] = Get(m, long[i - 1])
    BY <1>11, <1>13, <2>1, LineAt
  <2>4. b[j][1] \notin Reach(m, a)
    BY <1>11, <1>13, <2>1, LineAbove
  <2>5. Line(m, long, i - 1)
    BY <1>11, <1>13, <2>1, LineShorter, Zenon
  <2>6. Reach(m, Get(m, long[i - 1])) \subseteq Reach(m, c)
    BY <1>13, <2>1, <2>5, LineNested
  <2>7. b[j][1] \in Reach(m, c)
    BY <2>3, <2>6, LiveIs
  <2> QED BY <2>2, <2>3, <2>4, <2>7
<1>17. a # c
  <2>1. 0 \in 0 .. l /\ b[0][1] = c
    BY <1>8, <1>11
  <2>2. c \notin Reach(m, a)
    BY <1>16, <2>1
  <2> QED BY <1>14, <2>2
<1> QED BY <1>8, <1>11, <1>12, <1>14, <1>15, <1>16, <1>17 DEF Path

(* From m to r, only pointers between the nodes of X, which lead nowhere   *)
(* else, have changed.                                                     *)
Lost(m, r, X) ==
    /\ r \in Memory /\ r.root = m.root /\ Closed(r, X)
    /\ \A n \in Node \ X, d \in Dirs : r.child[n][d] = m.child[n][d]
    /\ Whole(r) => Whole(m)

(* A rotation among them.                                                  *)
LEMMA RotateLost ==
  ASSUME NEW m, NEW r, NEW X \in SUBSET Node, Lost(m, r, X), NEW p,
         Get(r, p) \in X \cup {Null}, NEW dir \in Dirs
  PROVE  Lost(m, Rotate(r, p, dir), X)
<1> DEFINE x == Get(r, p)
           y == r.child[x][1 - dir]
           s == Rotate(r, p, dir)
<1>1. /\ r \in Memory /\ r.root = m.root /\ Closed(r, X)
      /\ \A n \in Node \ X, d \in Dirs : r.child[n][d] = m.child[n][d]
  BY DEF Lost
<1>2. x \in Pointer
  BY DEF Pointer
<1>3. s \in Memory /\ s.root = r.root /\ (SameTree(r, s) \/ Turned(r, s, x, 1 - dir))
  BY <1>1, <1>2, RotateIs
<1>4. ~Whole(s)
  BY <1>1, <1>2, RotateSpoils
<1> SUFFICES Lost(m, s, X)
  OBVIOUS
<1> HIDE DEF s
<1>5. CASE SameTree(r, s)
  BY <1>4, <1>1, <1>3, <1>5 DEF SameTree, Lost, Closed
<1>6. CASE Turned(r, s, x, 1 - dir)
  <2> DEFINE z == r.child[y][dir]
  <2>1. 1 - dir \in Dirs /\ 1 - (1 - dir) = dir
    BY Opposite
  <2>2. /\ x \in Node /\ y \in Node /\ z \in Node
        /\ \A n \in Node, e \in Dirs :
              s.child[n][e] = IF n = x /\ e = 1 - dir THEN z
                              ELSE IF n = y /\ e = dir THEN x ELSE r.child[n][e]
    BY <1>6, <2>1 DEF Turned
  <2>3. x \in X /\ Null \notin Node
    BY <2>2, NType
  <2> HIDE DEF x
  <2>4. y \in X
    BY <1>1, <2>1, <2>2, <2>3 DEF Closed
  <2> HIDE DEF y
  <2>5. z \in X
    BY <1>1, <2>2, <2>3, <2>4 DEF Closed
  <2> HIDE DEF z
  <2>6. Closed(s, X)
    BY <1>1, <2>2, <2>3, <2>5 DEF Closed
  <2>7. \A n \in Node \ X, d \in Dirs : s.child[n][d] = m.child[n][d]
    BY <1>1, <2>2, <2>3, <2>4
  <2> QED BY <1>4, <1>1, <1>3, <2>6, <2>7 DEF Lost
<1> QED BY <1>3, <1>5, <1>6

(* _rebalance among them.                                                  *)
LEMMA RebalanceLost ==
  ASSUME NEW m, NEW r, NEW X \in SUBSET Node, Lost(m, r, X), NEW p \in X \X Dirs,
         NEW dir \in Dirs
  PROVE  Lost(m, Rebalance(r, p, dir), X)
<1> DEFINE a == Get(r, p)
           c == r.child[a][dir]
           s == IF r.balance[a] * r.balance[c] < 0 THEN Rotate(r, <<a, dir>>, dir) ELSE r
           t == Rebalance(r, p, dir)
<1>1. 1 - dir \in Dirs
  BY Opposite
<1>2. ASSUME NEW q, Lost(m, q, X) PROVE Get(q, p) \in X \cup {Null}
  <2>1. p[1] \in X /\ p[2] \in Dirs /\ p \in Node \X Dirs
    OBVIOUS
  <2>2. Get(q, p) = q.child[p[1]][p[2]]
    BY <2>1, GetIs
  <2> QED BY <1>2, <2>1, <2>2 DEF Lost, Closed
<1>3. a \in X \cup {Null}
  BY <1>2
<1>4. CASE ~r.alive \/ (a # Null /\ r.balance[a] \notin {2, -2})
  <2>1. t = r
    BY <1>4 DEF Rebalance
  <2> QED BY <2>1
<1>5. CASE ~(~r.alive \/ (a # Null /\ r.balance[a] \notin {2, -2})) /\ (a = Null \/ c = Null)
  <2>1. t = Crash(r)
    BY <1>5 DEF Rebalance
  <2>2. r \in Memory
    BY DEF Lost
  <2>3. t \in Memory /\ SameTree(r, t)
    BY <2>1, <2>2, CrashIs
  <2>4. ~Whole(t)
    BY <2>1, <2>2 DEF Whole, Crash, Memory
  <2> HIDE DEF t
  <2>5. Lost(m, t, X)
    BY <2>3, <2>4 DEF SameTree, Lost, Closed
  <2> QED BY <2>5 DEF t
<1>6. CASE ~(~r.alive \/ (a # Null /\ r.balance[a] \notin {2, -2})) /\ ~(a = Null \/ c = Null)
  <2>1. t = Rotate(s, p, 1 - dir)
    BY <1>6 DEF Rebalance
  <2>2. a \in X
    BY <1>3, <1>6
  <2>3. Get(r, <<a, dir>>) \in X \cup {Null}
    <3>1. Get(r, <<a, dir>>) = c
      BY GetChild
    <3> HIDE DEF a
    <3> QED BY <2>2, <3>1 DEF Lost, Closed
  <2>4. Lost(m, s, X)
    <3>1. CASE s = r
      BY <3>1
    <3>2. CASE s = Rotate(r, <<a, dir>>, dir)
      <4>1. Lost(m, Rotate(r, <<a, dir>>, dir), X)
        BY <2>3, RotateLost
      <4> QED BY <3>2, <4>1
    <3> QED BY <3>1, <3>2
  <2> HIDE DEF s, t
  <2>5. Get(s, p) \in X \cup {Null}
    BY <1>2, <2>4
  <2>6. Lost(m, Rotate(s, p, 1 - dir), X)
    BY <1>1, <2>4, <2>5, RotateLost
  <2> QED BY <2>1, <2>6 DEF t
<1> QED BY <1>4, <1>5, <1>6

(* The calls of _del_with_swap, all for places among them.                 *)
LEMMA BackLost ==
  ASSUME NEW m, NEW at, NEW depth \in Nat, NEW last, NEW turn, NEW inserting, NEW same,
         NEW changed, NEW q, NEW X \in SUBSET Node, Lost(q, last.m, X), last.balance \in Int,
         Calls(m, at, depth, turn, same, changed),
         \A k \in 0 .. depth - 1 : at[k] \in X \X Dirs
  PROVE  /\ Lost(q, Back(m, at, depth, last, turn, inserting, same, changed)[0].m, X)
         /\ Back(m, at, depth, last, turn, inserting, same, changed)[0].balance \in Int
<1> DEFINE up == Back(m, at, depth, last, turn, inserting, same, changed)
           OK(k) == Lost(q, up[k].m, X) /\ up[k].balance \in Int
           S == {i \in 0 .. depth : ~OK(depth - i)}
<1>1. /\ up[depth] = last
      /\ \A k \in 0 .. depth - 1 :
            up[k] = Returned(m, at[k], up[k + 1], turn[k], inserting, same[k], changed[k])
  BY BackSteps
<1> HIDE DEF up
<1>2. ASSUME NEW k \in 0 .. depth - 1, OK(k + 1) PROVE OK(k)
  <2> DEFINE sub  == up[k + 1]
             c    == Get(m, at[k])
             s    == [sub.m EXCEPT !.balance[c] = sub.balance]
             done == Rebalance(s, at[k], turn[k])
             now  == done.balance[Get(done, at[k])]
  <2>1. up[k] = [m |-> done,
                 balance |-> IF now # m.balance[c] /\ (now # 0) = inserting
                             THEN changed[k] ELSE same[k]]
    BY <1>1 DEF Returned
  <2>2. c \in Node /\ turn[k] \in Dirs /\ same[k] \in Int /\ changed[k] \in Int
    BY DEF Calls
  <2>3. up[k].m = done /\ up[k].balance \in Int
    BY <2>1, <2>2
  <2>4. Lost(q, sub.m, X) /\ sub.m \in Memory /\ sub.balance \in Int
    BY <1>2 DEF Lost
  <2> HIDE DEF sub, c
  <2>5. s \in Memory /\ SameTree(sub.m, s)
    BY <2>2, <2>4, SetBalance
  <2>6. Whole(s) => Whole(sub.m)
    BY <2>4 DEF Whole, Memory
  <2> HIDE DEF s
  <2>7. Lost(q, s, X)
    BY <2>4, <2>5, <2>6 DEF Lost, SameTree, Closed
  <2>8. Lost(q, done, X)
    BY <2>2, <2>7, RebalanceLost
  <2> QED BY <2>3, <2>8
<1>3. OK(depth)
  BY <1>1
<1> HIDE DEF OK
<1>4. S = {}
  <2> SUFFICES ASSUME S # {} PROVE FALSE
    OBVIOUS
  <2>1. PICK i \in S : \A j \in S : i <= j
    <3>1. S \subseteq Nat
      OBVIOUS
    <3> QED BY <3>1, LeastNat, Zenon
  <2>2. i \in 0 .. depth /\ ~OK(depth - i)
    BY <2>1
  <2>3. i # 0
    BY <1>3, <2>2
  <2>4. i - 1 \in 0 .. depth /\ ~(i <= i - 1) /\ depth - i \in 0 .. depth - 1
        /\ depth - (i - 1) = (depth - i) + 1
    BY <2>2, <2>3
  <2>5. OK(depth - (i - 1))
    BY <2>1, <2>4
  <2> QED BY <1>2, <2>2, <2>4, <2>5
<1>5. depth \in 0 .. depth /\ depth - depth = 0
  OBVIOUS
<1>6. OK(0)
  BY <1>4, <1>5
<1> QED BY <1>6 DEF OK, up

(* _swap of two places.                                                    *)
LEMMA SwapIs ==
  ASSUME NEW m \in Memory, NEW p \in Place, NEW q \in Place, Get(m, p) \in Node,
         Get(m, q) \in Node
  PROVE  /\ SwapNodes(m, p, q) \in Memory
         /\ SameTree(Put(Put(m, p, Get(m, q)), q, Get(m, p)), SwapNodes(m, p, q))
         /\ ~Whole(SwapNodes(m, p, q))
<1> DEFINE a == Get(m, p)
           c == Get(m, q)
           r == Put(m, p, c)
           t == Put(r, q, a)
           s == SwapNodes(m, p, q)
<1>1. a \in Node /\ c \in Node /\ a \in Pointer /\ c \in Pointer
  BY DEF Pointer
<1> HIDE DEF a, c
<1>2. r \in Memory
  BY <1>1, PutIs
<1> HIDE DEF r
<1>3. t \in Memory
  BY <1>1, <1>2, PutIs
<1> HIDE DEF t
<1>4. s = [t EXCEPT !.balance[c] = m.balance[a], !.balance[a] = m.balance[c],
                    !.past = t.past \cup {"repair"}]
  BY DEF SwapNodes, a, c, r, t
<1>5. m.balance[a] \in Int /\ m.balance[c] \in Int
  BY <1>1, Fields
<1> HIDE DEF s
<1> DEFINE u == [t EXCEPT !.balance[c] = m.balance[a]]
           v == [u EXCEPT !.balance[a] = m.balance[c]]
<1>6. u \in Memory /\ SameTree(t, u)
  BY <1>1, <1>3, <1>5, SetBalance
<1>7. v \in Memory /\ SameTree(u, v)
  <2> HIDE DEF u
  <2> QED BY <1>1, <1>5, <1>6, SetBalance
<1>8. v.past = t.past
  OBVIOUS
<1>9. s = [v EXCEPT !.past = t.past \cup {"repair"}]
  BY <1>4
<1> HIDE DEF u, v
<1>10. s = Repaired(v)
  BY <1>8, <1>9 DEF Repaired
<1>11. s \in Memory /\ SameTree(v, s)
  BY <1>7, <1>10, RepairedIs
<1>12. s \in Memory /\ SameTree(t, s)
  BY <1>6, <1>7, <1>11 DEF SameTree
<1>13. ~Whole(s)
  BY <1>7, <1>10 DEF Repaired, Whole, Memory
<1> QED BY <1>12, <1>13 DEF s, t, r, a, c

(* The places at[k], of c, and p, of a node a below c, have been swapped,  *)
(* and p then holds w.                                                     *)
LEMMA SwappedIs ==
  ASSUME NEW m \in Memory, Ordered(m), NEW at, NEW k \in Nat, Line(m, at, k),
         NEW c \in Live(m), c = Get(m, at[k]), NEW a \in Reach(m, c),
         NEW p \in Node \X Dirs, a = Get(m, p), p[1] \in Reach(m, c) \ Reach(m, a),
         NEW s, s = SwapNodes(m, p, at[k])
  PROVE  /\ s \in Memory /\ Get(s, at[k]) = a /\ Get(s, p) = c
         /\ at[k] # Top => s.root = m.root
         /\ \A n \in Node, f \in Dirs :
               <<n, f>> # p /\ <<n, f>> # at[k] => s.child[n][f] = m.child[n][f]
         /\ at[k] # Top => at[k] \in Node \X Dirs /\ at[k][1] \notin Reach(m, c)
<1> DEFINE h == at[k]
           r == Put(m, p, c)
           t == Put(r, h, a)
<1>1. c \in Node /\ a \in Node /\ c \in Pointer /\ a \in Pointer /\ k \in 0 .. k
  BY LiveIs DEF Pointer
<1>2. h \in Place /\ p \in Place
  BY <1>1, LinePlace DEF Place
<1>3. s \in Memory /\ SameTree(t, s)
  <2>1. Get(m, p) \in Node /\ Get(m, h) \in Node
    BY <1>1
  <2> QED BY <1>2, <2>1, SwapIs
<1>4. h # Top => h \in Node \X Dirs /\ h[1] \notin Reach(m, c)
  <2>1. CASE k = 0
    BY <2>1 DEF Line
  <2>2. CASE k # 0
    <3>1. k \in 1 .. k
      BY <2>2
    <3> QED BY <3>1, LineAt, LineAbove
  <2> QED BY <2>1, <2>2
<1>5. p # Top /\ p[1] \in Node /\ p[2] \in Dirs /\ p # h
  <2>1. p # Top /\ p[1] \in Node /\ p[2] \in Dirs
    BY GetIs
  <2> QED BY <1>4, <2>1
<1> HIDE DEF h
<1>6. /\ r \in Memory /\ r.root = m.root
      /\ \A n \in Node, f \in Dirs : r.child[n][f] = IF n = p[1] /\ f = p[2] THEN c ELSE m.child[n][f]
  <2> HIDE DEF r
  <2>1. r = Put(m, p, c)
    BY DEF r
  <2>2. p \in Place /\ c \in Pointer /\ p # Top
    BY <1>1, <1>2, <1>5
  <2> QED BY <2>1, <2>2, PutIs
<1> HIDE DEF r
<1>7. /\ t \in Memory /\ Get(t, h) = a
      /\ h = Top => t.root = a /\ t.child = r.child
      /\ h # Top => /\ t.root = r.root
                    /\ \A n \in Node, f \in Dirs :
                          t.child[n][f] = IF n = h[1] /\ f = h[2] THEN a ELSE r.child[n][f]
  <2> HIDE DEF t
  <2>1. t = Put(r, h, a)
    BY DEF t
  <2>2. r \in Memory /\ h \in Place /\ a \in Pointer
    BY <1>1, <1>2, <1>6
  <2> QED BY <2>1, <2>2, PutIs
<1> HIDE DEF t
<1>8. s.root = t.root /\ s.child = t.child
  BY <1>3 DEF SameTree
<1>9. Get(s, h) = a
  BY <1>7, <1>8 DEF Get
<1>10. Get(s, p) = c
  <2>1. Get(s, p) = s.child[p[1]][p[2]]
    BY GetIs
  <2>2. h # Top => ~(p[1] = h[1] /\ p[2] = h[2])
    BY <1>4
  <2>3. r.child[p[1]][p[2]] = c
    BY <1>5, <1>6
  <2>4. t.child[p[1]][p[2]] = r.child[p[1]][p[2]]
    BY <1>5, <1>7, <2>2
  <2> QED BY <1>8, <2>1, <2>3, <2>4
<1>11. ASSUME NEW n \in Node, NEW f \in Dirs, <<n, f>> # p, <<n, f>> # h
       PROVE  s.child[n][f] = m.child[n][f]
  <2>1. ~(n = p[1] /\ f = p[2])
    BY <1>11
  <2>2. r.child[n][f] = m.child[n][f]
    BY <1>6, <2>1
  <2>3. t.child[n][f] = r.child[n][f]
    <3>1. CASE h = Top
      BY <1>7, <3>1
    <3>2. CASE h # Top
      <4>1. ~(n = h[1] /\ f = h[2])
        BY <1>4, <1>11, <3>2
      <4> QED BY <1>7, <3>2, <4>1
    <3> QED BY <3>1, <3>2
  <2> QED BY <1>8, <2>2, <2>3
<1> QED BY <1>3, <1>4, <1>6, <1>7, <1>8, <1>9, <1>10, <1>11 DEF h

(* After it, the rest of what c led to is apart.                           *)
LEMMA SwapLoses ==
  ASSUME NEW m \in Memory, Ordered(m), NEW at, NEW k \in Nat, Line(m, at, k),
         NEW c \in Live(m), c = Get(m, at[k]), NEW a \in Reach(m, c),
         NEW p \in Node \X Dirs, a = Get(m, p), p[1] \in Reach(m, c) \ Reach(m, a),
         NEW s, s = SwapNodes(m, p, at[k]),
         NEW w \in Reach(m, c) \ Reach(m, a), NEW r, r = Put(s, p, w)
  PROVE  /\ Lost(r, r, Reach(m, c) \ Reach(m, a))
         /\ Get(r, at[k]) = a /\ (at[k] # Top => r.root = m.root)
         /\ \A n \in Node \ (Reach(m, c) \ Reach(m, a)), f \in Dirs :
               <<n, f>> # at[k] => r.child[n][f] = m.child[n][f]
<1> DEFINE X == Reach(m, c) \ Reach(m, a)
           h == at[k]
<1>1. /\ s \in Memory /\ Get(s, h) = a /\ Get(s, p) = c
      /\ h # Top => s.root = m.root
      /\ \A n \in Node, f \in Dirs :
            <<n, f>> # p /\ <<n, f>> # h => s.child[n][f] = m.child[n][f]
      /\ h # Top => h \in Node \X Dirs /\ h[1] \notin Reach(m, c)
  BY SwappedIs
<1>2. c \in Node /\ c \in Pointer /\ Reach(m, c) \subseteq Live(m)
  BY LiveIs DEF Pointer
<1>3. a \in Live(m) /\ a \in Node /\ a # Null /\ a \in Reach(m, a)
  BY <1>2, LiveIs, NType
<1>4. w \in Node /\ w \in Pointer /\ X \subseteq Node
  BY <1>2, LiveIs DEF Pointer
<1>5. p \in Place /\ p # Top /\ p[1] \in X /\ p[2] \in Dirs /\ m.child[p[1]][p[2]] = a
  BY GetIs DEF Place
<1>6. /\ r \in Memory /\ r.root = s.root
      /\ \A n \in Node, f \in Dirs : r.child[n][f] = IF n = p[1] /\ f = p[2] THEN w ELSE s.child[n][f]
  BY <1>1, <1>4, <1>5, PutIs
<1> HIDE DEF h
<1>7. Get(r, h) = a
  <2>1. CASE h = Top
    BY <1>1, <1>6, <2>1, GetIs
  <2>2. CASE h # Top
    <3>1. Get(r, h) = r.child[h[1]][h[2]] /\ Get(s, h) = s.child[h[1]][h[2]]
          /\ h[1] \in Node /\ h[2] \in Dirs
      BY <1>1, <2>2, GetIs
    <3>2. h[1] # p[1]
      BY <1>1, <1>5, <2>2
    <3> QED BY <1>1, <1>6, <3>1, <3>2
  <2> QED BY <2>1, <2>2
<1>8. ASSUME NEW n \in X, NEW f \in Dirs PROVE r.child[n][f] \in X \cup {Null}
  <2>1. CASE n = p[1] /\ f = p[2]
    BY <1>4, <1>6, <2>1
  <2>2. CASE ~(n = p[1] /\ f = p[2])
    <3>1. n \in Node /\ n \in Live(m)
      BY <1>2, <1>4
    <3>2. <<n, f>> # p
      BY <2>2
    <3>3. <<n, f>> # h
      <4>1. CASE h = Top
        BY <4>1 DEF Top
      <4>2. CASE h # Top
        <5>1. h[1] \notin Reach(m, c)
          BY <1>1, <4>2
        <5>2. CASE <<n, f>> = h
          <6>1. h[1] = n
            BY <5>2
          <6> QED BY <5>1, <6>1
        <5> QED BY <5>2
      <4> QED BY <4>1, <4>2
    <3>4. r.child[n][f] = m.child[n][f]
      BY <1>1, <1>6, <2>2, <3>1, <3>2, <3>3
    <3>5. m.child[n][f] \in Reach(m, c) \cup {Null}
      BY <1>2, ReachIs DEF Closed
    <3>6. CASE m.child[n][f] \in Reach(m, a)
      <4>1. m.child[n][f] = a
        BY <1>3, <3>1, <3>6, EntersAtTop
      <4> DEFINE x == p[1]
                 e == p[2]
      <4>2. x \in Live(m) /\ e \in Dirs /\ m.child[x][e] = a
        BY <1>2, <1>5
      <4> HIDE DEF x, e
      <4>3. n = x /\ f = e
        BY <1>3, <3>1, <4>1, <4>2, UniqueParent
      <4> QED BY <2>2, <4>3 DEF x, e
    <3>7. CASE m.child[n][f] \notin Reach(m, a)
      BY <3>4, <3>5, <3>7
    <3> QED BY <3>6, <3>7
  <2> QED BY <2>1, <2>2
<1>9. Lost(r, r, X)
  BY <1>6, <1>8 DEF Lost, Closed
<1>10. ASSUME NEW n \in Node \ X, NEW f \in Dirs, <<n, f>> # h
       PROVE  r.child[n][f] = m.child[n][f]
  <2>1. n # p[1]
    BY <1>5
  <2>2. <<n, f>> # p
    BY <2>1
  <2> QED BY <1>1, <1>6, <1>10, <2>1, <2>2
<1> QED BY <1>1, <1>6, <1>7, <1>9, <1>10 DEF h

(* What _del_with_swap does: the place of c comes to hold a node below it. *)
LEMMA DelWithSwapIs ==
  ASSUME NEW m \in Memory, Ordered(m), NEW at, NEW k \in Nat, Line(m, at, k),
         NEW c \in Live(m), c = Get(m, at[k]), NEW side \in Dirs, m.child[c][side] # Null,
         NEW r, r = DelWithSwap(m, at[k], side)
  PROVE  /\ \E a \in Reach(m, c) : a \in Node /\ a # c /\ Spliced(m, r.m, at[k], c, a)
         /\ r.balance \in Int /\ ~Whole(r.m)
<1> DEFINE to      == [n \in Node |-> 1 - side]
           b       == Descent(m, <<c, side>>, to)
           l       == Depth(m, b, {Null}) - 1
           a       == Get(m, b[l])
           s       == SwapNodes(m, b[l], at[k])
           same    == [j \in 0 .. l |-> IF j = 0 THEN 0 ELSE ParentBalance(m, b[j])]
           changed == [j \in 0 .. l |-> same[j] + AsBalance(side)]
           w       == s.child[Get(s, b[l])][side]
           t       == Put(s, b[l], w)
           last    == [m |-> t, balance |-> changed[l]]
           turn    == [j \in 0 .. l |-> side]
           X       == Reach(m, c) \ Reach(m, a)
<1>1. r = Back(m, b, l, last, turn, FALSE, same, changed)[0]
  BY DEF DelWithSwap
<1>2. c \in Node /\ c \in Reach(m, c) /\ c \in Pointer /\ Reach(m, c) \subseteq Live(m)
      /\ Live(m) \subseteq Node
  BY LiveIs DEF Pointer
<1>3. to \in [Node -> Dirs] /\ AsBalance(side) \in Int
  BY Opposite
<1>4. /\ l \in Nat /\ b[0] = <<c, side>>
      /\ a \in Node /\ a \in Reach(m, c) /\ a # c
      /\ \A j \in 0 .. l : /\ b[j] \in Node \X Dirs /\ Get(m, b[j]) \in Node
                           /\ b[j][1] \in X
                           /\ j # 0 => b[j][1] = Get(m, b[j - 1])
  <2>1. b = Descent(m, <<c, side>>, to)
    OBVIOUS
  <2>2. l = Depth(m, b, {Null}) - 1
    OBVIOUS
  <2>3. a = Get(m, b[l])
    OBVIOUS
  <2> HIDE DEF to, b, l, a
  <2>4. Path(m, c, side, b, l, a)
    BY <1>2, <1>3, <2>1, <2>2, <2>3, Farthest
  <2> QED BY <2>4 DEF Path, X
<1>5. a = Get(m, b[l]) /\ l \in 0 .. l /\ 0 \in 0 .. l
  BY <1>4
<1>6. X \in SUBSET Node /\ X = Reach(m, c) \ Reach(m, a)
  BY <1>2
<1> HIDE DEF b, l, a, X
<1>7. b[l] \in Node \X Dirs /\ b[l][1] \in Reach(m, c) \ Reach(m, a) /\ c \in X
  <2>1. b[0][1] = c
    BY <1>4
  <2> QED BY <1>4, <1>5, <1>6, <2>1
<1>8. s = SwapNodes(m, b[l], at[k])
  OBVIOUS
<1>9. ~Whole(s)
  <2>1. k \in 0 .. k
    OBVIOUS
  <2>2. b[l] \in Place /\ at[k] \in Place
    BY <1>7, <2>1, LinePlace DEF Place
  <2>3. Get(m, b[l]) \in Node /\ Get(m, at[k]) \in Node
    BY <1>2, <1>4, <1>5
  <2> QED BY <2>2, <2>3, SwapIs
<1> HIDE DEF s
<1>10. /\ s \in Memory /\ Get(s, at[k]) = a /\ Get(s, b[l]) = c
       /\ \A n \in Node, f \in Dirs :
             <<n, f>> # b[l] /\ <<n, f>> # at[k] => s.child[n][f] = m.child[n][f]
       /\ at[k] # Top => at[k] \in Node \X Dirs /\ at[k][1] \notin Reach(m, c)
  BY <1>4, <1>5, <1>7, <1>8, SwappedIs
<1>11. w \in X
  <2>1. w = s.child[c][side]
    BY <1>10
  <2>2. CASE <<c, side>> = b[l]
    <3>1. Get(s, <<c, side>>) = s.child[c][side]
      BY GetChild
    <3> QED BY <1>7, <1>10, <2>1, <2>2, <3>1
  <2>3. CASE <<c, side>> # b[l]
    <3>1. <<c, side>> # at[k]
      <4>1. CASE at[k] = Top
        BY <4>1 DEF Top
      <4>2. CASE at[k] # Top
        <5>1. CASE <<c, side>> = at[k]
          <6>1. at[k][1] = c
            BY <5>1
          <6> QED BY <1>2, <1>10, <4>2, <6>1
        <5> QED BY <5>1
      <4> QED BY <4>1, <4>2
    <3>2. w = m.child[c][side]
      BY <1>2, <1>10, <2>1, <2>3, <3>1
    <3>3. l # 0
      BY <1>4, <2>3
    <3>4. 1 \in 0 .. l /\ 1 - 1 = 0 /\ 1 # 0
      BY <1>4, <3>3
    <3>5. b[1][1] = Get(m, b[0]) /\ b[1][1] \in X
      BY <1>4, <3>4
    <3>6. Get(m, <<c, side>>) = m.child[c][side]
      BY GetChild
    <3> QED BY <1>4, <3>2, <3>5, <3>6
  <2> QED BY <2>2, <2>3
<1> HIDE DEF w
<1>12. t = Put(s, b[l], w)
  OBVIOUS
<1> HIDE DEF t
<1>13. ~Whole(t)
  <2>1. b[l] \in Place /\ w \in Pointer
    BY <1>6, <1>7, <1>11 DEF Place, Pointer
  <2> QED BY <1>9, <1>10, <1>12, <2>1, PutIs DEF Whole
<1>14. /\ Lost(t, t, X)
       /\ Get(t, at[k]) = a /\ (at[k] # Top => t.root = m.root)
       /\ \A n \in Node \ X, f \in Dirs : <<n, f>> # at[k] => t.child[n][f] = m.child[n][f]
  <2>1. w \in Reach(m, c) \ Reach(m, a)
    BY <1>6, <1>11
  <2>2. /\ Lost(t, t, Reach(m, c) \ Reach(m, a))
        /\ Get(t, at[k]) = a /\ (at[k] # Top => t.root = m.root)
        /\ \A n \in Node \ (Reach(m, c) \ Reach(m, a)), f \in Dirs :
              <<n, f>> # at[k] => t.child[n][f] = m.child[n][f]
    <3>1. a \in Reach(m, c)
      BY <1>4
    <3>2. PICK p : p = b[l]
      OBVIOUS
    <3>3. /\ p \in Node \X Dirs /\ a = Get(m, p) /\ p[1] \in Reach(m, c) \ Reach(m, a)
          /\ s = SwapNodes(m, p, at[k]) /\ t = Put(s, p, w)
      BY ONLY <1>5, <1>7, <1>8, <1>12, <3>2
    <3> QED BY <2>1, <3>1, <3>3, SwapLoses
  <2> QED BY <1>6, <2>2
<1>15. ASSUME NEW j \in 0 .. l
       PROVE  same[j] \in Int /\ changed[j] \in Int /\ turn[j] \in Dirs
  <2>1. same[j] \in Int
    <3>1. b[j] \in Place
      BY <1>4 DEF Place
    <3>2. ParentBalance(m, b[j]) \in Int
      BY <3>1, Arguments
    <3> QED BY <3>2
  <2> HIDE DEF same
  <2> QED BY <1>3, <2>1
<1>16. last.m = t /\ last.balance \in Int
  BY <1>5, <1>15
<1> HIDE DEF same, changed, turn, last
<1>17. \A j \in 0 .. l - 1 : j \in 0 .. l
  BY <1>4
<1>18. Calls(m, b, l, turn, same, changed)
  BY <1>4, <1>15, <1>17 DEF Calls
<1>19. \A j \in 0 .. l - 1 : b[j] \in X \X Dirs
  <2> SUFFICES ASSUME NEW j \in 0 .. l - 1 PROVE b[j] \in X \X Dirs
    OBVIOUS
  <2>1. b[j] \in Node \X Dirs /\ b[j][1] \in X
    BY <1>4, <1>17
  <2> QED BY <2>1
<1>20. Lost(t, last.m, X) /\ l \in Nat
  BY <1>4, <1>14, <1>16
<1>21. /\ Lost(t, Back(m, b, l, last, turn, FALSE, same, changed)[0].m, X)
       /\ Back(m, b, l, last, turn, FALSE, same, changed)[0].balance \in Int
  BY <1>6, <1>16, <1>18, <1>19, <1>20, BackLost, Zenon
<1>22. Lost(t, r.m, X) /\ r.balance \in Int
  BY <1>1, <1>21
<1>23. /\ r.m \in Memory /\ r.m.root = t.root /\ (Whole(r.m) => Whole(t))
       /\ \A n \in Node \ X, d \in Dirs : r.m.child[n][d] = t.child[n][d]
  BY <1>22 DEF Lost
<1>24. Get(r.m, at[k]) = a
  <2>1. CASE at[k] = Top
    BY <1>14, <1>23, <2>1, GetIs
  <2>2. CASE at[k] # Top
    <3>1. at[k] \in Node \X Dirs /\ at[k][1] \notin X
      BY <1>6, <1>10, <2>2
    <3>2. /\ Get(r.m, at[k]) = r.m.child[at[k][1]][at[k][2]]
          /\ Get(t, at[k]) = t.child[at[k][1]][at[k][2]]
          /\ at[k][1] \in Node /\ at[k][2] \in Dirs
      BY <3>1, GetIs
    <3> QED BY <1>14, <1>23, <3>1, <3>2
  <2> QED BY <2>1, <2>2
<1>25. Spliced(m, r.m, at[k], c, a)
  <2>1. \A n \in (Live(m) \ Reach(m, c)) \cup Reach(m, a) : n \in Node \ X
    <3>1. Reach(m, a) \subseteq Node
      BY <1>2, <1>4, LiveIs
    <3> QED BY <1>2, <1>6, <3>1
  <2> QED BY <1>14, <1>23, <1>24, <2>1 DEF Spliced
<1> QED BY <1>4, <1>13, <1>22, <1>23, <1>25

(* _delete at the place of a node with a child.                            *)
LEMMA ReplaceKeeps ==
  ASSUME NEW m \in Memory, Ordered(m), NEW at, NEW k \in Nat, Line(m, at, k),
         NEW c \in Live(m), c = Get(m, at[k]),
         ~(m.child[c][LEFT] = Null /\ m.child[c][RIGHT] = Null)
  PROVE  Sound(Replace(m, at[k]).m, Live(m) \ {c}, at, k) /\ ~Whole(Replace(m, at[k]).m)
<1> DEFINE side == IF m.child[c][LEFT] # Null THEN LEFT ELSE RIGHT
           swap == DelWithSwap(m, at[k], side)
           a    == Get(swap.m, at[k])
           by   == IF swap.balance # 0 THEN - AsBalance(side) ELSE 0
           s    == AddBalance(swap.m, a, by)
           done == Rebalance(s, at[k], 1 - side)
<1>1. Replace(m, at[k]).m = done
  BY DEF Replace, Rebalanced, Lightened
<1>2. side \in Dirs /\ m.child[c][side] # Null
  BY DEF Dirs
<1> HIDE DEF side
<1>3. 1 - side \in Dirs /\ AsBalance(side) \in Int
  BY <1>2, Opposite
<1>4. /\ \E x \in Reach(m, c) : x \in Node /\ x # c /\ Spliced(m, swap.m, at[k], c, x)
      /\ ~Whole(swap.m)
  BY <1>2, DelWithSwapIs
<1> HIDE DEF swap
<1>5. PICK x \in Reach(m, c) : x \in Node /\ x # c /\ Spliced(m, swap.m, at[k], c, x)
  BY <1>4
<1>6. a = x
  BY <1>5 DEF Spliced
<1>7. Sound(swap.m, Live(m) \ {c}, at, k)
  BY <1>5, SplicedKeeps
<1>8. swap.m \in Memory /\ Ordered(swap.m) /\ Live(swap.m) \subseteq Live(m) \ {c}
      /\ Line(swap.m, at, k) /\ a \in Node /\ by \in Int
  BY <1>3, <1>5, <1>6, <1>7 DEF Sound
<1> HIDE DEF a, by
<1>9. s \in Memory /\ SameTree(swap.m, s)
  BY <1>8, AddBalanceIs
<1>10. ~Whole(s)
  BY <1>4, <1>8 DEF Whole, AddBalance, Memory
<1> HIDE DEF s
<1>11. Ordered(s) /\ Live(s) = Live(swap.m)
  BY <1>8, <1>9, SameOrder
<1>12. Line(s, at, k)
  <2>1. \A j \in 0 .. k : Get(s, at[j]) = Get(swap.m, at[j])
    BY <1>9 DEF SameTree, Get
  <2> QED BY <1>8, <2>1, LineKept
<1>13. done \in Memory /\ Ordered(done) /\ Live(done) \subseteq Live(s) /\ Line(done, at, k)
  BY <1>3, <1>9, <1>11, <1>12, RebalanceKeeps
<1>14. Sound(done, Live(m) \ {c}, at, k)
  BY <1>8, <1>11, <1>13 DEF Sound
<1>15. ~Whole(done)
  <2>1. k \in 0 .. k
    OBVIOUS
  <2>2. at[k] \in Place
    BY <2>1, LinePlace
  <2> QED BY <1>3, <1>9, <1>10, <2>2, RebalanceWhole
<1> QED BY <1>1, <1>14, <1>15

Gone(m)   == [m EXCEPT !.past = @ \cup {"removal"}]
IsLeaf(m, c) == m.child[c][LEFT] = Null /\ m.child[c][RIGHT] = Null

(* How _delete goes: down to n or an empty place, takes n out if it is     *)
(* there, and back.                                                        *)
Deleting(m, n, c, at, depth, last, turn, same, changed) ==
    /\ depth \in Nat /\ Line(m, at, depth) /\ c = Get(m, at[depth])
    /\ \A j \in 0 .. depth - 1 : Get(m, at[j]) \in Live(m)
    /\ \A k \in 0 .. depth : same[k] = ParentBalance(m, at[k])
    /\ \/ c = Null /\ last.m = m /\ last.balance = same[depth]
       \/ c \in Live(m) /\ IsLeaf(m, c) /\ last.m = Put(Gone(m), at[depth], Null)
       \/ c \in Live(m) /\ ~IsLeaf(m, c) /\ last.m = Replace(m, at[depth]).m
    /\ last.balance \in Int /\ Calls(m, at, depth, turn, same, changed)
    /\ Delete(m, n).found = c
    /\ Delete(m, n).m = Back(m, at, depth, last, turn, FALSE, same, changed)[0].m

(* That is how it goes.                                                    *)
LEMMA DeleteCalls ==
  ASSUME NEW m \in Memory, Ordered(m), NEW n \in Node
  PROVE  \E c, at, depth, last, turn, same, changed :
            Deleting(m, n, c, at, depth, last, turn, same, changed)
<1> DEFINE at      == Descent(m, Top, Toward(n))
           depth   == Depth(m, at, {Null, n})
           here    == at[depth]
           c       == Get(m, here)
           same    == [k \in 0 .. depth |-> ParentBalance(m, at[k])]
           changed == [k \in 0 .. depth |-> same[k] + AsBalance(Dir(at[k]))]
           leaf    == m.child[c][LEFT] = Null /\ m.child[c][RIGHT] = Null
           other   == Replace(m, here)
           gone    == [m EXCEPT !.past = @ \cup {"removal"}]
           last    == IF c = Null THEN [m |-> m, balance |-> same[depth]]
                      ELSE IF leaf
                      THEN [m |-> Put(gone, here, Null),
                            balance |-> same[depth] - AsBalance(Dir(here))]
                      ELSE [m |-> other.m,
                            balance |-> IF other.changed THEN changed[depth] ELSE same[depth]]
           turn    == [k \in 0 .. depth |-> 1 - Dir(at[k + 1])]
<1>1. Delete(m, n) = [m |-> Back(m, at, depth, last, turn, FALSE, same, changed)[0].m,
                      found |-> c]
  BY DEF Delete
<1>2. Toward(n) \in [Node -> Dirs]
  BY NType DEF Toward, Side, Dirs
<1>3. /\ depth \in Nat /\ \A j \in 0 .. depth - 1 : Get(m, at[j]) \in Live(m)
      /\ Line(m, at, depth) /\ c \in Live(m) \cup {Null}
  BY <1>2, DescentEnds
<1>4. gone = Gone(m)
  BY DEF Gone
<1> HIDE DEF at, depth, gone
<1>5. ASSUME NEW k \in 0 .. depth
      PROVE  /\ Dir(at[k]) \in Dirs /\ 1 - Dir(at[k]) \in Dirs /\ same[k] \in Int
             /\ changed[k] \in Int /\ same[k] - AsBalance(Dir(at[k])) \in Int
             /\ same[k] = ParentBalance(m, at[k])
  <2>1. at[k] \in Place
    BY <1>3, LinePlace
  <2>2. Dir(at[k]) \in Dirs /\ same[k] \in Int /\ changed[k] \in Int
        /\ same[k] - AsBalance(Dir(at[k])) \in Int
    BY <2>1, Arguments
  <2> QED BY <2>2, Opposite
<1>6. ASSUME NEW k \in 0 .. depth - 1
      PROVE  /\ Get(m, at[k]) \in Node /\ turn[k] \in Dirs
             /\ same[k] \in Int /\ changed[k] \in Int
  <2>1. k \in 0 .. depth /\ k + 1 \in 0 .. depth
    BY <1>3
  <2> QED BY <1>3, <1>5, <2>1, LiveIs
<1>7. Calls(m, at, depth, turn, same, changed)
  <2> HIDE DEF turn, same, changed
  <2> QED BY <1>6 DEF Calls
<1>8. depth \in 0 .. depth
  BY <1>3
<1>9. same[depth] \in Int /\ changed[depth] \in Int
      /\ same[depth] - AsBalance(Dir(here)) \in Int
  BY <1>5, <1>8
<1>10. \A k \in 0 .. depth : same[k] = ParentBalance(m, at[k])
  BY <1>5
<1> HIDE DEF same, changed, turn
<1>11. last.balance \in Int
  BY <1>9
<1>12. \/ c = Null /\ last.m = m /\ last.balance = same[depth]
       \/ c \in Live(m) /\ IsLeaf(m, c) /\ last.m = Put(Gone(m), at[depth], Null)
       \/ c \in Live(m) /\ ~IsLeaf(m, c) /\ last.m = Replace(m, at[depth]).m
  <2>1. CASE c = Null
    BY <2>1
  <2>2. CASE c # Null /\ leaf
    BY <1>3, <1>4, <2>2 DEF IsLeaf
  <2>3. CASE c # Null /\ ~leaf
    BY <1>3, <2>3 DEF IsLeaf
  <2> QED BY <2>1, <2>2, <2>3
<1>13. Delete(m, n).m = Back(m, at, depth, last, turn, FALSE, same, changed)[0].m
       /\ Delete(m, n).found = c
  BY <1>1
<1> HIDE DEF last
<1>14. Deleting(m, n, c, at, depth, last, turn, same, changed)
  BY <1>3, <1>7, <1>10, <1>11, <1>12, <1>13 DEF Deleting
<1> HIDE DEF c
<1> QED BY <1>14

(* The memory it starts back with.                                         *)
LEMMA DeleteStarts ==
  ASSUME NEW m \in Memory, Ordered(m), NEW n \in Node, NEW c,
         NEW at, NEW depth, NEW last, NEW turn, NEW same, NEW changed,
         Deleting(m, n, c, at, depth, last, turn, same, changed)
  PROVE  Sound(last.m, Live(m) \ {c}, at, depth)
<1>1. depth \in Nat /\ Line(m, at, depth) /\ c = Get(m, at[depth])
  BY DEF Deleting
<1>2. CASE c = Null /\ last.m = m
  <2>1. Live(m) \ {c} = Live(m)
    BY <1>2, LiveIs, NType
  <2> QED BY <1>1, <1>2, <2>1 DEF Sound
<1>3. CASE c \in Live(m) /\ last.m = Put(Gone(m), at[depth], Null)
  <2>1. Gone(m) \in Memory /\ SameTree(m, Gone(m))
    BY DEF Memory, SameTree, Gone
  <2> QED BY <1>1, <1>3, <2>1, LeafRemoved
<1>4. CASE c \in Live(m) /\ ~IsLeaf(m, c) /\ last.m = Replace(m, at[depth]).m
  BY <1>1, <1>4, ReplaceKeeps DEF IsLeaf
<1> QED BY <1>2, <1>3, <1>4 DEF Deleting

(* _delete leaves a search tree, without the node it has found.            *)
LEMMA DeleteKeeps ==
  ASSUME NEW m \in Memory, Ordered(m), NEW n \in Node, NEW r, r = Delete(m, n)
  PROVE  r.m \in Memory /\ Ordered(r.m) /\ Live(r.m) \subseteq Live(m) \ {r.found}
<1>1. PICK c, at, depth, last, turn, same, changed :
         Deleting(m, n, c, at, depth, last, turn, same, changed)
  BY DeleteCalls, Zenon
<1>2. Sound(last.m, Live(m) \ {c}, at, depth)
  BY <1>1, DeleteStarts, Zenon
<1>3. /\ depth \in Nat /\ last.balance \in Int /\ Calls(m, at, depth, turn, same, changed)
      /\ r.m = Back(m, at, depth, last, turn, FALSE, same, changed)[0].m /\ r.found = c
  BY <1>1 DEF Deleting
<1>4. Sound(Back(m, at, depth, last, turn, FALSE, same, changed)[0].m, Live(m) \ {c}, at, 0)
  BY <1>2, <1>3, BackSound, Zenon
<1> QED BY <1>3, <1>4 DEF Sound

----------------------------------------------------------------------------
(* The tree between two calls.                                             *)

(* A node that is not in the tree is zeroed, as avl_add gets it.           *)
Fresh(m) ==
    \A n \in Node \ Live(m) : m.balance[n] = 0 /\ \A d \in Dirs : m.child[n][d] = Null

(* A tree that has not been given a node.                                  *)
LEMMA EmptyTree ==
  ASSUME NEW m \in Memory, m.root = Null,
         \A n \in Node : m.balance[n] = 0 /\ \A d \in Dirs : m.child[n][d] = Null
  PROVE  Live(m) = {} /\ Ordered(m) /\ Fresh(m)
<1>1. Live(m) = {}
  BY ReachNull DEF Live
<1> QED BY <1>1 DEF Ordered, Fresh

(* Zeroed memory.                                                          *)
LEMMA ZeroIs ==
  /\ Zero \in Memory /\ Zero.root = Null /\ Zero.past = {}
  /\ \A n \in Node : Zero.balance[n] = 0 /\ \A d \in Dirs : Zero.child[n][d] = Null
  /\ Live(Zero) = {} /\ Ordered(Zero) /\ Fresh(Zero)
<1> DEFINE none == [n \in Node |-> [d \in {LEFT, RIGHT} |-> Null]]
           flat == [n \in Node |-> 0]
<1>1. none \in [Node -> [{LEFT, RIGHT} -> Pointer]] /\ Null \in Pointer
      /\ \A n \in Node, d \in Dirs : none[n][d] = Null
  BY DEF Pointer, Dirs
<1>2. flat \in [Node -> Int] /\ \A n \in Node : flat[n] = 0
  OBVIOUS
<1>3. Zero = [root |-> Null, child |-> none, balance |-> flat, alive |-> TRUE, past |-> {}]
  BY DEF Zero
<1> HIDE DEF none, flat
<1>4. Zero.root = Null /\ Zero.past = {} /\ Zero.child = none /\ Zero.balance = flat
  BY <1>3
<1>5. Zero \in Memory
  BY <1>1, <1>2, <1>3 DEF Memory
<1>6. Live(Zero) = {} /\ Ordered(Zero) /\ Fresh(Zero)
  BY <1>1, <1>2, <1>4, <1>5, EmptyTree
<1> QED BY <1>1, <1>2, <1>4, <1>5, <1>6

(* A memory with the same tree.                                            *)
Kept(m, r) ==
    /\ Live(r) = Live(m) /\ r.past = m.past /\ r.alive = m.alive
    /\ \A n \in Live(m) : /\ r.balance[n] = m.balance[n]
                          /\ \A d \in Dirs : r.child[n][d] = m.child[n][d]

(* Nodes that nothing leads to any more are of no consequence.             *)
LEMMA CollectKeeps ==
  ASSUME NEW m \in Memory, Ordered(m), NEW r, r = Collect(m)
  PROVE  /\ r \in Memory /\ Ordered(r) /\ Live(r) \subseteq Live(m) /\ Fresh(r)
         /\ r.alive => Kept(m, r)
<1>1. CASE ~m.alive
  <2>1. r = Crash(Zero)
    BY <1>1 DEF Collect, Crash
  <2>2. /\ r \in Memory /\ r.root = Null /\ ~r.alive
        /\ \A n \in Node : r.balance[n] = 0 /\ \A d \in Dirs : r.child[n][d] = Null
    <3>1. r \in Memory /\ r.root = Zero.root /\ r.child = Zero.child
      BY <2>1, ZeroIs, CrashIs DEF SameTree
    <3>2. r.balance = Zero.balance /\ r.alive = FALSE
      BY <2>1, ZeroIs DEF Crash, Memory
    <3> QED BY <3>1, <3>2, ZeroIs
  <2>3. Live(r) = {} /\ Ordered(r) /\ Fresh(r)
    BY <2>2, EmptyTree
  <2> QED BY <2>2, <2>3
<1>2. CASE m.alive
  <2> DEFINE L     == Live(m)
             child == [n \in Node |-> IF n \in L THEN m.child[n] ELSE Zero.child[n]]
             flat  == [n \in Node |-> IF n \in L THEN m.balance[n] ELSE 0]
  <2>1. r = [m EXCEPT !.child = child, !.balance = flat]
    BY <1>2 DEF Collect, Live
  <2>2. L \subseteq Node /\ Closed(m, L) /\ m.root \in L \cup {Null}
    BY LiveIs
  <2> HIDE DEF L
  <2>3. Zero.child \in [Node -> [Dirs -> Pointer]] /\ \A n \in Node, d \in Dirs : Zero.child[n][d] = Null
    BY DEF Zero, Dirs, Pointer
  <2>4. m.child \in [Node -> [Dirs -> Pointer]] /\ m.balance \in [Node -> Int]
    BY Fields
  <2>5. child \in [Node -> [Dirs -> Pointer]] /\ flat \in [Node -> Int]
    BY <2>3, <2>4
  <2>6. /\ \A n \in Node, d \in Dirs : child[n][d] = IF n \in L THEN m.child[n][d] ELSE Null
        /\ \A n \in Node : flat[n] = IF n \in L THEN m.balance[n] ELSE 0
    BY <2>3, <2>4
  <2> HIDE DEF child, flat
  <2>7. /\ r \in Memory /\ r.root = m.root /\ r.child = child /\ r.balance = flat
        /\ r.past = m.past /\ r.alive = m.alive
    BY <2>1, <2>5 DEF Memory, Dirs
  <2>8. Closed(r, L)
    BY <2>2, <2>6, <2>7 DEF Closed
  <2>9. Ordered(r) /\ Live(r) \subseteq L
    <3>1. L \in SUBSET Live(m) /\ r.root \in L \cup {Null}
      BY <2>2, <2>7 DEF L
    <3>2. \A w \in L, d \in Dirs : r.child[w][d] \in Reach(m, m.child[w][d]) \cup {Null}
      <4> SUFFICES ASSUME NEW w \in L, NEW d \in Dirs
                   PROVE  r.child[w][d] \in Reach(m, m.child[w][d]) \cup {Null}
        OBVIOUS
      <4>1. r.child[w][d] = m.child[w][d] /\ m.child[w][d] \in Pointer
        BY <2>2, <2>6, <2>7, Fields
      <4> QED BY <4>1, ReachIs
    <3> QED BY <2>7, <2>8, <3>1, <3>2, Shrunk
  <2>10. L \subseteq Live(r)
    <3> DEFINE K == Live(r)
    <3>1. Closed(r, K) /\ r.root \in K \cup {Null}
      BY <2>7, LiveIs
    <3> HIDE DEF K
    <3>2. K \subseteq L
      BY <2>9 DEF K
    <3>3. Closed(m, K)
      BY <2>2, <2>6, <2>7, <3>1, <3>2 DEF Closed
    <3>4. m.root \in Pointer /\ m.root \in K \cup {Null}
      BY <2>7, <3>1, Fields
    <3>5. Reach(m, m.root) \subseteq K
      BY <3>3, <3>4, ReachIs, Zenon
    <3> QED BY <3>5 DEF K, L, Live
  <2>11. Fresh(r)
    BY <2>6, <2>7, <2>10 DEF Fresh
  <2>12. Kept(m, r)
    <3>1. Live(r) = Live(m)
      BY <2>9, <2>10 DEF L
    <3> QED BY <2>2, <2>6, <2>7, <3>1 DEF Kept, L
  <2> QED BY <2>7, <2>9, <2>11, <2>12 DEF L
<1> QED BY <1>1, <1>2

(* The inductive invariant: what root leads to is a search tree of the     *)
(* client's nodes, and other nodes are zeroed.                             *)
AvlInv == TypeOK /\ Ordered(heap) /\ Live(heap) \subseteq members /\ Fresh(heap)

(* It holds of a new tree.                                                 *)
LEMMA AvlInvInit ==
  ASSUME heap = Zero, members = {}
  PROVE  AvlInv
BY ZeroIs DEF AvlInv, TypeOK

(* Every call of the client preserves it.                                  *)
LEMMA AvlInvNext ==
  ASSUME AvlInv, [Next]_vars
  PROVE  AvlInv'
<1>1. heap \in Memory /\ members \subseteq Node /\ Ordered(heap)
      /\ Live(heap) \subseteq members /\ Fresh(heap)
  BY DEF AvlInv, TypeOK
<1>2. CASE UNCHANGED vars
  <2>1. heap' = heap /\ members' = members
    BY <1>2 DEF vars
  <2> QED BY <1>1, <2>1 DEF AvlInv, TypeOK
<1>3. CASE Alloc
  <2>1. heap' = Zero /\ members' = {}
    BY <1>3 DEF Alloc
  <2> QED BY <2>1, ZeroIs DEF AvlInv, TypeOK
<1>4. ASSUME NEW n \in Node, Add(n) PROVE AvlInv'
  <2> DEFINE m == Insert(heap, n)
  <2>1. n \notin members /\ heap' = Collect(m) /\ members' = members \cup {n}
    BY <1>4 DEF Add
  <2>2. n \notin Live(heap) /\ \A d \in Dirs : heap.child[n][d] = Null
    BY <1>1, <2>1 DEF Fresh
  <2>3. m \in Memory /\ Ordered(m) /\ Live(m) \subseteq Live(heap) \cup {n}
    BY <1>1, <2>2, InsertKeeps
  <2> HIDE DEF m
  <2>4. heap' \in Memory /\ Ordered(heap') /\ Live(heap') \subseteq Live(m) /\ Fresh(heap')
    BY <2>1, <2>3, CollectKeeps
  <2> QED BY <1>1, <2>1, <2>3, <2>4 DEF AvlInv, TypeOK
<1>5. ASSUME NEW n \in Node, Del(n) PROVE AvlInv'
  <2> DEFINE r == Delete(heap, n)
  <2>1. heap' = Collect(r.m) /\ members' = members \ {r.found}
    BY <1>5 DEF Del
  <2>2. r.m \in Memory /\ Ordered(r.m) /\ Live(r.m) \subseteq Live(heap) \ {r.found}
    BY <1>1, DeleteKeeps
  <2> HIDE DEF r
  <2>3. heap' \in Memory /\ Ordered(heap') /\ Live(heap') \subseteq Live(r.m) /\ Fresh(heap')
    BY <2>1, <2>2, CollectKeeps
  <2> QED BY <1>1, <2>1, <2>2, <2>3 DEF AvlInv, TypeOK
<1> QED BY <1>2, <1>3, <1>4, <1>5 DEF Next

(* So it is an invariant of the specification.                             *)
LEMMA AvlInvariant == Spec => []AvlInv
<1>1. Init => AvlInv
  BY AvlInvInit DEF Init
<1>2. AvlInv /\ [Next]_vars => AvlInv'
  BY AvlInvNext
<1> QED BY <1>1, <1>2, PTL DEF Spec

(* It says that there is a search tree.                                    *)
LEMMA AvlInvSearchTree ==
  ASSUME AvlInv
  PROVE  SearchTree
<1>1. TypeOK /\ Ordered(heap)
  BY DEF AvlInv
<1>2. LEFT \in Dirs /\ RIGHT \in Dirs /\ LEFT # RIGHT
  BY DEF Dirs, LEFT, RIGHT
<1> QED BY <1>1, <1>2 DEF SearchTree, Ordered, Live, On

(* For any number of nodes and any calls of avl_add and avl_del: however   *)
(* many nodes _rotate and _del_with_swap lose, what tree->root leads to is *)
(* a search tree, and no pointer in it leads back.                         *)
THEOREM AvlSearchTree == Spec => []SearchTree
BY AvlInvariant, AvlInvSearchTree, PTL

----------------------------------------------------------------------------
(* The calls that only read.                                               *)

(* _find_eq finds what is there.                                           *)
LEMMA FindEqIs ==
  ASSUME heap \in Memory, Ordered(heap), NEW n \in Node
  PROVE  FindEq(n) = IF n \in Live(heap) THEN n ELSE Null
<1> DEFINE to == Toward(n)
           at == Descent(heap, Top, to)
           k  == Depth(heap, at, {Null, n})
           x  == Get(heap, at[k])
<1>1. FindEq(n) = x
  BY DEF FindEq
<1>2. to \in [Node -> Dirs]
  BY NType DEF Toward, Side, Dirs
<1>3. /\ k \in Nat /\ x \in {Null, n}
      /\ \A j \in 0 .. k - 1 : Get(heap, at[j]) \notin {Null, n}
      /\ Line(heap, at, k) /\ \A j \in 1 .. k : at[j][2] = to[at[j][1]]
      /\ x \in Live(heap) \cup {Null}
  <2>1. at = Descent(heap, Top, to) /\ k = Depth(heap, at, {Null, n}) /\ Null \in {Null, n}
    OBVIOUS
  <2> HIDE DEF to, at, k
  <2> QED BY <1>2, <2>1, DescentEnds
<1> HIDE DEF at, k
<1>4. CASE n \notin Live(heap)
  BY <1>1, <1>3, <1>4
<1>5. CASE n \in Live(heap)
  <2>1. ASSUME NEW j \in 1 .. k PROVE at[j][1] # n /\ On(at[j][2], n, at[j][1])
    <3>1. j - 1 \in 0 .. k - 1
      BY <1>3
    <3>2. at[j][1] \in Node /\ at[j][1] = Get(heap, at[j - 1])
      BY <1>3, LineAt
    <3>3. at[j][1] # n
      BY <1>3, <3>1, <3>2
    <3>4. at[j][2] = Side(at[j][1], n)
      BY <1>3, <3>2 DEF Toward
    <3> QED BY <3>2, <3>3, <3>4, OneSide
  <2>2. n \in Reach(heap, x)
    BY <1>3, <1>5, <2>1, Guided
  <2>3. x # Null
    BY <2>2, ReachNull
  <2> QED BY <1>1, <1>3, <1>5, <2>3
<1> QED BY <1>4, <1>5

(* avl_min and avl_max find the node that is on no other side of any.      *)
LEMMA OutermostIs ==
  ASSUME heap \in Memory, Ordered(heap), NEW dir \in Dirs, NEW x \in Live(heap),
         \A y \in Live(heap) : y # x => On(dir, x, y)
  PROVE  Outermost(dir) = x
<1> DEFINE to == [n \in Node |-> dir]
           at == Descent(heap, Top, to)
           k  == Depth(heap, at, {Null})
<1>1. heap.root # Null
  <2>1. CASE heap.root = Null
    <3>1. Live(heap) = {}
      BY <2>1, ReachNull DEF Live
    <3> QED BY <3>1
  <2> QED BY <2>1
<1>2. Outermost(dir) = at[k][1]
  BY <1>1 DEF Outermost
<1>3. to \in [Node -> Dirs]
  OBVIOUS
<1>4. /\ k \in Nat /\ Get(heap, at[k]) \in {Null}
      /\ Line(heap, at, k) /\ \A j \in 1 .. k : at[j][2] = to[at[j][1]]
  <2>1. at = Descent(heap, Top, to) /\ k = Depth(heap, at, {Null}) /\ Null \in {Null}
    OBVIOUS
  <2> HIDE DEF to, at, k
  <2> QED BY <1>3, <2>1, DescentEnds
<1> HIDE DEF at, k
<1>5. ASSUME NEW j \in 1 .. k
      PROVE  /\ at[j][1] \in Live(heap) /\ at[j][1] \in Node /\ at[j][2] = dir
             /\ Get(heap, at[j]) = heap.child[at[j][1]][dir]
  BY <1>4, LineAt
<1>6. PICK j \in 1 .. k : at[j][1] = x
  <2> SUFFICES ASSUME \A j \in 1 .. k : at[j][1] # x PROVE FALSE
    OBVIOUS
  <2>1. \A j \in 1 .. k : at[j][1] # x /\ On(at[j][2], x, at[j][1])
    BY <1>5
  <2>2. x \in Reach(heap, Get(heap, at[k]))
    BY <1>4, <2>1, Guided
  <2> QED BY <1>4, <2>2, ReachNull
<1>7. j = k
  <2> SUFFICES ASSUME j # k PROVE FALSE
    OBVIOUS
  <2>1. j + 1 \in 1 .. k /\ (j + 1) - 1 = j
    BY <1>4
  <2> DEFINE y == at[j + 1][1]
  <2>2. y \in Live(heap) /\ y \in Node /\ y = Get(heap, at[j])
    BY <1>4, <2>1, LineAt
  <2> HIDE DEF y
  <2>3. y = heap.child[x][dir]
    BY <1>5, <1>6, <2>2
  <2>4. y \in Reach(heap, heap.child[x][dir])
    BY <2>2, <2>3, LiveIs
  <2>5. On(dir, y, x) /\ y # x
    BY <2>4, NotBelowItself DEF Ordered
  <2>6. On(dir, x, y)
    BY <2>2, <2>5
  <2>7. x \in Int /\ y \in Int
    BY <2>2, LiveIs, NType
  <2> QED BY <2>5, <2>6, <2>7 DEF On
<1> QED BY <1>2, <1>6, <1>7

(* Some integers have a least and a greatest.                              *)
LEMMA Ends ==
  ASSUME NEW S \in SUBSET Node, S # {}
  PROVE  /\ Min(S) \in S /\ \A y \in S : Min(S) <= y
         /\ Max(S) \in S /\ \A y \in S : Max(S) >= y
<1>1. IsFiniteSet(S) /\ S \subseteq Int
  BY NType, FS_Subset
<1>2. \E x \in S : \A y \in S : x <= y
  <2> DEFINE B(x) == {y \in S : y < x}
             T == {Cardinality(B(x)) : x \in S}
  <2>1. \A x \in S : IsFiniteSet(B(x)) /\ Cardinality(B(x)) \in Nat
    BY <1>1, FS_Subset, FS_CardinalityType
  <2>2. PICK t \in T : \A u \in T : t <= u
    <3>1. T \subseteq Nat /\ T # {}
      BY <2>1
    <3> QED BY <3>1, LeastNat, Zenon
  <2>3. PICK x \in S : t = Cardinality(B(x))
    BY <2>2
  <2>4. ASSUME NEW y \in S, y < x PROVE FALSE
    <3>0. x \in Int /\ y \in Int /\ ~(y < y)
      BY <1>1
    <3>1. B(y) \subseteq B(x) /\ y \in B(x) /\ y \notin B(y)
      <4>1. \A z \in S : z < y => z < x
        BY <1>1, <2>4, <3>0
      <4> QED BY <2>4, <3>0, <4>1
    <3> DEFINE a == Cardinality(B(x))
               b == Cardinality(B(y))
    <3>2. b <= a /\ (a = b => B(x) = B(y)) /\ a \in Nat /\ b \in Nat
      BY <2>1, <3>1, FS_Subset
    <3>3. a # b
      BY <3>1, <3>2
    <3>4. a <= b
      BY <2>2, <2>3
    <3> HIDE DEF a, b
    <3> QED BY <3>2, <3>3, <3>4
  <2> QED BY <1>1, <2>4
<1>3. \E x \in S : \A y \in S : x >= y
  <2> DEFINE B(x) == {y \in S : y > x}
             T == {Cardinality(B(x)) : x \in S}
  <2>1. \A x \in S : IsFiniteSet(B(x)) /\ Cardinality(B(x)) \in Nat
    BY <1>1, FS_Subset, FS_CardinalityType
  <2>2. PICK t \in T : \A u \in T : t <= u
    <3>1. T \subseteq Nat /\ T # {}
      BY <2>1
    <3> QED BY <3>1, LeastNat, Zenon
  <2>3. PICK x \in S : t = Cardinality(B(x))
    BY <2>2
  <2>4. ASSUME NEW y \in S, y > x PROVE FALSE
    <3>0. x \in Int /\ y \in Int /\ ~(y > y)
      BY <1>1
    <3>1. B(y) \subseteq B(x) /\ y \in B(x) /\ y \notin B(y)
      <4>1. \A z \in S : z > y => z > x
        BY <1>1, <2>4, <3>0
      <4> QED BY <2>4, <3>0, <4>1
    <3> DEFINE a == Cardinality(B(x))
               b == Cardinality(B(y))
    <3>2. b <= a /\ (a = b => B(x) = B(y)) /\ a \in Nat /\ b \in Nat
      BY <2>1, <3>1, FS_Subset
    <3>3. a # b
      BY <3>1, <3>2
    <3>4. a <= b
      BY <2>2, <2>3
    <3> HIDE DEF a, b
    <3> QED BY <3>2, <3>3, <3>4
  <2> QED BY <1>1, <2>4
<1> QED BY <1>2, <1>3 DEF Min, Max

(* Together.                                                               *)
LEMMA AvlInvFinds ==
  ASSUME AvlInv
  PROVE  FindsWhatIsThere
<1> DEFINE L == Live(heap)
<1>1. heap \in Memory /\ Ordered(heap) /\ L \subseteq Node
  BY LiveIs DEF AvlInv, TypeOK
<1>2. \A n \in Node : FindEq(n) = IF n \in L THEN n ELSE Null
  BY <1>1, FindEqIs
<1>3. ASSUME L # {} PROVE Outermost(LEFT) = Min(L) /\ Outermost(RIGHT) = Max(L)
  <2>1. /\ Min(L) \in L /\ \A y \in L : Min(L) <= y
        /\ Max(L) \in L /\ \A y \in L : Max(L) >= y
    BY <1>1, <1>3, Ends
  <2>2. L \subseteq Int /\ LEFT \in Dirs /\ RIGHT \in Dirs /\ LEFT # RIGHT
    <3>1. LEFT \in Dirs /\ RIGHT \in Dirs /\ LEFT # RIGHT
      BY DEF Dirs, LEFT, RIGHT
    <3>2. L \subseteq Int
      BY <1>1, NType
    <3> QED BY <3>1, <3>2
  <2> DEFINE a == Min(L)
             b == Max(L)
  <2> HIDE DEF a, b
  <2>3. a \in L /\ \A y \in L : y # a => On(LEFT, a, y)
    BY <2>1, <2>2 DEF On, a
  <2>4. b \in L /\ \A y \in L : y # b => On(RIGHT, b, y)
    BY <2>1, <2>2 DEF On, b
  <2>5. Outermost(LEFT) = a
    BY <1>1, <2>2, <2>3, OutermostIs
  <2>6. Outermost(RIGHT) = b
    BY <1>1, <2>2, <2>4, OutermostIs
  <2> QED BY <2>5, <2>6 DEF a, b
<1> QED BY <1>2, <1>3 DEF FindsWhatIsThere, Live

(* For any number of nodes and any calls of avl_add and avl_del, _find_eq  *)
(* finds exactly the nodes that are still in the tree, and avl_min and     *)
(* avl_max return its ends.                                                *)
THEOREM AvlFindsWhatIsThere == Spec => []FindsWhatIsThere
BY AvlInvariant, AvlInvFinds, PTL

----------------------------------------------------------------------------
(* Until something goes wrong.                                             *)

(* What a call for the place p of node c is returned by the one below.     *)
Handed(m, p, c, sub, dir) ==
    /\ p \in Place /\ c \in Node /\ c = Get(m, p) /\ dir \in Dirs
    /\ sub.m \in Memory /\ sub.balance \in Int /\ c = Get(sub.m, p)

(* What it returns when it has only stored the balance it was given.       *)
Stored(m, c, sub, inserting, same, changed, r) ==
    /\ Whole(sub.m) /\ r.m = [sub.m EXCEPT !.balance[c] = sub.balance]
    /\ sub.balance \notin {2, -2}
    /\ r.balance = IF sub.balance # m.balance[c] /\ (sub.balance # 0) = inserting
                   THEN changed ELSE same

(* That is all it has done when nothing has gone wrong.                    *)
LEMMA ReturnedWhole ==
  ASSUME NEW m, NEW p, NEW c, NEW sub, NEW dir, Handed(m, p, c, sub, dir),
         NEW inserting, NEW same, NEW changed,
         NEW r, r = Returned(m, p, sub, dir, inserting, same, changed), Whole(r.m)
  PROVE  Stored(m, c, sub, inserting, same, changed, r)
<1> DEFINE s    == [sub.m EXCEPT !.balance[c] = sub.balance]
           done == Rebalance(s, p, dir)
           now  == done.balance[Get(done, p)]
<1>0. /\ p \in Place /\ c \in Node /\ c = Get(m, p) /\ dir \in Dirs
      /\ sub.m \in Memory /\ sub.balance \in Int /\ c = Get(sub.m, p)
  BY DEF Handed
<1>1. r = [m |-> done,
           balance |-> IF now # m.balance[c] /\ (now # 0) = inserting THEN changed ELSE same]
  BY <1>0 DEF Returned
<1>2. s \in Memory /\ SameTree(sub.m, s)
  BY <1>0, SetBalance
<1>3. s.alive = sub.m.alive /\ s.past = sub.m.past /\ s.balance[c] = sub.balance
  BY <1>0 DEF Memory
<1>4. Get(s, p) = c
  BY <1>0, <1>2 DEF SameTree, Get
<1>5. r.m = done
  BY <1>1
<1> HIDE DEF s
<1>6. done = s /\ s.balance[Get(s, p)] \notin {2, -2}
  BY <1>0, <1>2, <1>5, RebalanceWhole
<1>7. now = sub.balance
  BY <1>3, <1>4, <1>6
<1>8. Whole(sub.m)
  BY <1>3, <1>5, <1>6 DEF Whole
<1>9. r.balance = IF now # m.balance[c] /\ (now # 0) = inserting THEN changed ELSE same
  BY <1>1
<1> HIDE DEF done, now
<1> QED BY <1>3, <1>4, <1>5, <1>6, <1>7, <1>8, <1>9 DEF s, Stored

(* All calls back to the first have only stored a balance.                 *)
Quiet(m, at, depth, inserting, same, changed, up) ==
    \A k \in 0 .. depth - 1 :
        /\ Get(m, at[k]) \in Live(m) /\ up[k + 1].m \in Memory /\ up[k + 1].balance \in Int
        /\ Stored(m, Get(m, at[k]), up[k + 1], inserting, same[k], changed[k], up[k])

(* The calls back, of which the first has not gone wrong.                  *)
BackFine(m, at, depth, last, turn, inserting, same, changed, U, up) ==
    /\ m \in Memory /\ depth \in Nat /\ Line(m, at, depth)
    /\ Sound(last.m, U, at, depth) /\ last.balance \in Int
    /\ Calls(m, at, depth, turn, same, changed)
    /\ up = Back(m, at, depth, last, turn, inserting, same, changed)
    /\ Whole(up[0].m)

(* Then none has.                                                          *)
LEMMA BackWhole ==
  ASSUME NEW m, NEW at, NEW depth, NEW last, NEW turn, NEW inserting, NEW same, NEW changed,
         NEW U, NEW up,
         BackFine(m, at, depth, last, turn, inserting, same, changed, U, up)
  PROVE  /\ up[depth] = last /\ Whole(last.m)
         /\ Quiet(m, at, depth, inserting, same, changed, up)
<1> SUFFICES ASSUME m \in Memory, depth \in Nat, Line(m, at, depth),
                    Sound(last.m, U, at, depth), last.balance \in Int,
                    Calls(m, at, depth, turn, same, changed),
                    up = Back(m, at, depth, last, turn, inserting, same, changed),
                    Whole(up[0].m)
             PROVE  /\ up[depth] = last /\ Whole(last.m)
                    /\ Quiet(m, at, depth, inserting, same, changed, up)
  BY DEF BackFine
<1> DEFINE S == {k \in 0 .. depth : ~Whole(up[k].m)}
<1>1. /\ up[depth] = last
      /\ \A k \in 0 .. depth - 1 :
            up[k] = Returned(m, at[k], up[k + 1], turn[k], inserting, same[k], changed[k])
  BY BackSteps
<1>2. \A k \in 0 .. depth : Sound(up[k].m, U, at, k) /\ up[k].balance \in Int
  BY BackSoundAll, Zenon
<1>3. ASSUME NEW k \in 0 .. depth - 1, Whole(up[k].m)
      PROVE  /\ up[k + 1].m \in Memory /\ up[k + 1].balance \in Int
             /\ Stored(m, Get(m, at[k]), up[k + 1], inserting, same[k], changed[k], up[k])
  <2> DEFINE c   == Get(m, at[k])
             sub == up[k + 1]
  <2>1. k + 1 \in 0 .. depth /\ k + 1 \in 1 .. depth /\ k + 1 \in 1 .. k + 1 /\ (k + 1) - 1 = k
        /\ k \in 0 .. depth /\ k + 1 \in Nat
    OBVIOUS
  <2>2. sub.m \in Memory /\ Line(sub.m, at, k + 1) /\ sub.balance \in Int
    BY <1>2, <2>1 DEF Sound
  <2>3. at[k] \in Place
    BY <2>1, LinePlace
  <2>4. c \in Node /\ turn[k] \in Dirs
    BY DEF Calls
  <2>5. at[k + 1][1] = Get(sub.m, at[k]) /\ at[k + 1][1] = c
    BY <2>1, <2>2 DEF Line
  <2>6. up[k] = Returned(m, at[k], sub, turn[k], inserting, same[k], changed[k])
    BY <1>1
  <2>7. c = Get(m, at[k]) /\ c = Get(sub.m, at[k])
    BY <2>5
  <2> HIDE DEF sub, c
  <2>8. Stored(m, c, sub, inserting, same[k], changed[k], up[k])
    <3>1. Handed(m, at[k], c, sub, turn[k])
      BY <2>2, <2>3, <2>4, <2>7 DEF Handed
    <3> QED BY <1>3, <2>6, <3>1, ReturnedWhole
  <2> QED BY <2>2, <2>8 DEF sub, c
<1>4. S = {}
  <2> SUFFICES ASSUME S # {} PROVE FALSE
    OBVIOUS
  <2>1. PICK k \in S : \A j \in S : k <= j
    <3>1. S \subseteq Nat
      OBVIOUS
    <3> QED BY <3>1, LeastNat, Zenon
  <2>2. k # 0 /\ k \in 0 .. depth /\ ~Whole(up[k].m)
    BY <2>1
  <2>3. k - 1 \in 0 .. depth - 1 /\ ~(k <= k - 1) /\ (k - 1) + 1 = k /\ k - 1 \in 0 .. depth
    BY <2>2
  <2>4. Whole(up[k - 1].m)
    BY <2>1, <2>3
  <2>5. Whole(up[(k - 1) + 1].m)
    BY <1>3, <2>3, <2>4 DEF Stored
  <2> QED BY <2>2, <2>3, <2>5
<1>5. \A k \in 0 .. depth : Whole(up[k].m)
  BY <1>4
<1>6. depth \in 0 .. depth /\ \A k \in 0 .. depth - 1 : k \in 0 .. depth
  OBVIOUS
<1>7. up[depth] = last /\ Whole(last.m)
  BY <1>1, <1>5, <1>6
<1>8. \A k \in 0 .. depth - 1 : Get(m, at[k]) \in Live(m)
  BY <1>6, LineLive, NType DEF Calls
<1> QED BY <1>3, <1>5, <1>6, <1>7, <1>8 DEF Quiet

(* A node hung in at an empty place loses none.                            *)
LEMMA Grafted ==
  ASSUME NEW m \in Memory, NEW n \in Node, NEW at, NEW k \in Nat, Line(m, at, k),
         Get(m, at[k]) = Null, NEW t, t = Put(m, at[k], n), Line(t, at, k)
  PROVE  Live(m) \cup {n} \subseteq Live(t)
<1> DEFINE K == Live(t)
<1>1. k \in 0 .. k /\ n \in Pointer /\ n # Null
  BY NType DEF Pointer
<1>2. at[k] \in Place
  BY <1>1, LinePlace
<1>3. /\ t \in Memory /\ Get(t, at[k]) = n
      /\ at[k] = Top => t.root = n /\ t.child = m.child
      /\ at[k] # Top => /\ t.root = m.root
                        /\ \A w \in Node, f \in Dirs :
                              t.child[w][f] = IF w = at[k][1] /\ f = at[k][2] THEN n
                                              ELSE m.child[w][f]
  BY <1>1, <1>2, PutIs
<1>4. K \subseteq Node /\ Closed(t, K) /\ t.root \in K \cup {Null}
  BY <1>3, LiveIs
<1>5. n \in K
  <2>1. Get(t, at[k]) \in K \cup {Null}
    BY <1>1, <1>3, LineLive
  <2> QED BY <1>1, <1>3, <2>1
<1> HIDE DEF K
<1>6. Closed(m, K) /\ m.root \in K \cup {Null}
  <2>1. CASE at[k] = Top
    <3>1. m.root = Null /\ t.child = m.child
      BY <1>3, <2>1, GetIs
    <3> QED BY <1>4, <3>1 DEF Closed
  <2>2. CASE at[k] # Top
    <3>1. at[k] \in Node \X Dirs
      BY <1>2, <2>2 DEF Place
    <3>2. m.child[at[k][1]][at[k][2]] = Null
      BY <3>1, GetIs
    <3>3. \A w \in K, f \in Dirs : m.child[w][f] = t.child[w][f] \/ m.child[w][f] = Null
      BY <1>3, <1>4, <2>2, <3>2
    <3> QED BY <1>3, <1>4, <2>2, <3>3 DEF Closed
  <2> QED BY <2>1, <2>2
<1>7. Live(m) \subseteq K
  <2>1. m.root \in Pointer
    BY Fields
  <2>2. Reach(m, m.root) \subseteq K
    BY <1>6, <2>1, ReachIs, Zenon
  <2> QED BY <2>2 DEF Live
<1> QED BY <1>5, <1>7 DEF K

(* A leaf that is removed takes no other node with it.                     *)
LEMMA OnlyTheLeaf ==
  ASSUME NEW m \in Memory, NEW at, NEW k \in Nat, Line(m, at, k),
         NEW c \in Node, c = Get(m, at[k]), \A d \in Dirs : m.child[c][d] = Null,
         NEW s \in Memory, SameTree(m, s), NEW r, r = Put(s, at[k], Null)
  PROVE  Live(m) \ {c} \subseteq Live(r)
<1> DEFINE K == Live(r)
<1>1. k \in 0 .. k /\ Null \in Pointer /\ s.root = m.root /\ s.child = m.child
  BY DEF Pointer, SameTree
<1>2. at[k] \in Place
  BY <1>1, LinePlace
<1>3. /\ r \in Memory
      /\ at[k] = Top => r.root = Null /\ r.child = m.child
      /\ at[k] # Top => /\ r.root = m.root
                        /\ \A w \in Node, f \in Dirs :
                              r.child[w][f] = IF w = at[k][1] /\ f = at[k][2] THEN Null
                                              ELSE m.child[w][f]
  BY <1>1, <1>2, PutIs
<1>4. K \subseteq Node /\ Closed(r, K) /\ r.root \in K \cup {Null}
  BY <1>3, LiveIs
<1> HIDE DEF K
<1>5. Closed(m, K \cup {c}) /\ m.root \in K \cup {c} \cup {Null}
  <2>1. CASE at[k] = Top
    <3>1. m.root = c /\ r.child = m.child
      BY <1>3, <2>1, GetIs
    <3> QED BY <1>4, <3>1 DEF Closed
  <2>2. CASE at[k] # Top
    <3>1. at[k] \in Node \X Dirs
      BY <1>2, <2>2 DEF Place
    <3>2. m.child[at[k][1]][at[k][2]] = c
      BY <3>1, GetIs
    <3>3. \A w \in K, f \in Dirs : m.child[w][f] = r.child[w][f] \/ m.child[w][f] = c
      BY <1>3, <1>4, <2>2, <3>2
    <3> QED BY <1>3, <1>4, <2>2, <3>3 DEF Closed
  <2> QED BY <2>1, <2>2
<1>6. Live(m) \subseteq K \cup {c}
  <2>1. m.root \in Pointer
    BY Fields
  <2> DEFINE C == K \cup {c}
  <2>2. Closed(m, C) /\ m.root \in C \cup {Null}
    BY <1>5
  <2> HIDE DEF C
  <2>3. Reach(m, m.root) \subseteq C
    BY <2>1, <2>2, ReachIs, Zenon
  <2> QED BY <2>3 DEF Live, C
<1> QED BY <1>6 DEF K

----------------------------------------------------------------------------
(* Heights.                                                                *)

Higher(a, b) == IF a <= b THEN b ELSE a

(* The heights h are right at node n, and so is its balance.               *)
Level(m, h, n) ==
    LET l == h[m.child[n][LEFT]]
        r == h[m.child[n][RIGHT]]
    IN  h[n] = 1 + Higher(l, r) /\ m.balance[n] = r - l /\ m.balance[n] \in -1 .. 1

Heights(m, h) ==
    h \in [Pointer -> Nat] /\ h[Null] = 0 /\ \A n \in Live(m) : Level(m, h, n)

(* A node whose subtrees had the heights l and r: the one on side s has    *)
(* grown by e, and b is the balance the call below has returned for it.    *)
Taller(l, r, s, e, b, l2, r2, more) ==
    /\ l \in Nat /\ r \in Nat /\ r - l \in -1 .. 1 /\ s \in Dirs /\ e \in {0, 1}
    /\ b = (r - l) + e * AsBalance(s) /\ b \notin {2, -2}
    /\ l2 = IF s = LEFT THEN l + e ELSE l
    /\ r2 = IF s = RIGHT THEN r + e ELSE r
    /\ more = IF b # r - l /\ b # 0 THEN 1 ELSE 0

(* Then that is its balance, and tells whether the node has grown.         *)
LEMMA Grows ==
  ASSUME NEW l, NEW r, NEW s, NEW e, NEW b, NEW l2, NEW r2, NEW more,
         Taller(l, r, s, e, b, l2, r2, more)
  PROVE  /\ b \in -1 .. 1 /\ b = r2 - l2
         /\ (1 + Higher(l, r)) + more = 1 + Higher(l2, r2)
<1> USE DEF Taller
<1>1. CASE s = LEFT
  <2>1. AsBalance(s) = -1 /\ s # RIGHT
    BY <1>1 DEF AsBalance, LEFT, RIGHT
  <2>2. CASE e = 0
    BY <1>1, <2>1, <2>2 DEF Higher
  <2>3. CASE e = 1
    <3>1. b = (r - l) - 1
      BY <2>1, <2>3
    <3> QED BY <1>1, <2>1, <2>3, <3>1 DEF Higher
  <2> QED BY <2>2, <2>3
<1>2. CASE s = RIGHT
  <2>1. AsBalance(s) = 1 /\ s # LEFT
    BY <1>2 DEF AsBalance, LEFT, RIGHT
  <2>2. CASE e = 0
    BY <1>2, <2>1, <2>2 DEF Higher
  <2>3. CASE e = 1
    <3>1. b = (r - l) + 1
      BY <2>1, <2>3
    <3> QED BY <1>2, <2>1, <2>3, <3>1 DEF Higher
  <2> QED BY <2>2, <2>3
<1> QED BY <1>1, <1>2 DEF Dirs

(* No node is twice on a line.                                             *)
LEMMA LineOnce ==
  ASSUME NEW m \in Memory, Ordered(m), NEW at, NEW k \in Nat, Line(m, at, k),
         NEW i \in 0 .. k, NEW j \in 0 .. k, Get(m, at[i]) = Get(m, at[j]),
         Get(m, at[j]) # Null
  PROVE  i = j
<1>1. ASSUME NEW a \in 0 .. k, NEW b \in 0 .. k, Get(m, at[a]) = Get(m, at[b]),
             Get(m, at[b]) # Null, a < b
      PROVE  FALSE
  <2>1. b \in Nat /\ a + 1 \in 1 .. b /\ (a + 1) - 1 = a
    BY <1>1
  <2>2. Line(m, at, b)
    BY LineShorter, Zenon
  <2>3. at[a + 1][1] = Get(m, at[a]) /\ at[a + 1][1] \notin Reach(m, Get(m, at[b]))
    BY <2>1, <2>2, LineAbove DEF Line
  <2>4. Get(m, at[b]) \in Live(m)
    BY <1>1, LineLive
  <2> QED BY <1>1, <2>3, <2>4, LiveIs
<1>2. i < j \/ j < i \/ i = j
  OBVIOUS
<1> QED BY <1>1, <1>2

(* The only pointer to a node of the line is its place.                    *)
LEMMA LineParent ==
  ASSUME NEW m \in Memory, Ordered(m), NEW at, NEW k \in Nat, Line(m, at, k),
         NEW j \in 0 .. k, NEW x \in Live(m), NEW d \in Dirs,
         m.child[x][d] = Get(m, at[j]), Get(m, at[j]) # Null
  PROVE  j # 0 /\ at[j][1] = x /\ at[j][2] = d
<1>1. CASE j = 0
  <2>1. m.child[x][d] = m.root
    BY <1>1, GetIs DEF Line
  <2> QED BY <2>1, NotBelowItself DEF Live
<1>2. CASE j # 0
  <2>1. j \in 1 .. k
    BY <1>2
  <2>2. /\ at[j][1] \in Live(m) /\ at[j][2] \in Dirs
        /\ Get(m, at[j]) = m.child[at[j][1]][at[j][2]]
    BY <2>1, LineAt
  <2>3. at[j][1] = x /\ at[j][2] = d
    BY <2>2, UniqueParent
  <2> QED BY <1>2, <2>3
<1> QED BY <1>1, <1>2

(* The nodes of the calls have got the balances from below, and nothing    *)
(* else has changed.                                                       *)
Settled(m, at, depth, up) ==
    LET r == up[0].m
        t == up[depth].m
    IN  /\ SameTree(t, r) /\ r \in Memory /\ r.past = t.past
        /\ \A k \in 0 .. depth - 1 : r.balance[Get(m, at[k])] = up[k + 1].balance
        /\ \A x \in Node : (\A k \in 0 .. depth - 1 : x # Get(m, at[k]))
              => r.balance[x] = t.balance[x]

(* That is what they do.                                                   *)
LEMMA QuietIs ==
  ASSUME NEW m \in Memory, Ordered(m), NEW at, NEW depth \in Nat, Line(m, at, depth),
         NEW inserting, NEW same, NEW changed, NEW up, up[depth].m \in Memory,
         Quiet(m, at, depth, inserting, same, changed, up)
  PROVE  Settled(m, at, depth, up)
<1> DEFINE c(k) == Get(m, at[k])
           OK(k) == /\ SameTree(up[depth].m, up[k].m)
                    /\ up[k].m \in Memory /\ up[k].m.past = up[depth].m.past
                    /\ \A j \in k .. depth - 1 : up[k].m.balance[c(j)] = up[j + 1].balance
                    /\ \A x \in Node : (\A j \in k .. depth - 1 : x # c(j))
                          => up[k].m.balance[x] = up[depth].m.balance[x]
           S == {i \in 0 .. depth : ~OK(depth - i)}
<1>1. OK(depth)
  <2>1. depth .. depth - 1 = {}
    OBVIOUS
  <2> QED BY <2>1 DEF SameTree
<1>2. ASSUME NEW k \in 0 .. depth - 1, OK(k + 1) PROVE OK(k)
  <2> DEFINE s == up[k + 1].m
             r == up[k].m
             b == up[k + 1].balance
  <2>1. c(k) \in Live(m) /\ b \in Int /\ r = [s EXCEPT !.balance[c(k)] = b]
    BY DEF Quiet, Stored
  <2>2. /\ SameTree(up[depth].m, s) /\ s \in Memory /\ s.past = up[depth].m.past
        /\ \A j \in k + 1 .. depth - 1 : s.balance[c(j)] = up[j + 1].balance
        /\ \A x \in Node : (\A j \in k + 1 .. depth - 1 : x # c(j))
              => s.balance[x] = up[depth].m.balance[x]
    BY <1>2
  <2>3. c(k) \in Node /\ c(k) # Null /\ \A j \in 0 .. depth - 1 : c(j) \in Node
    BY <2>1, LiveIs, NType DEF Quiet
  <2>4. \A j \in k + 1 .. depth - 1 : c(j) # c(k)
    <3> SUFFICES ASSUME NEW j \in k + 1 .. depth - 1, c(j) = c(k) PROVE FALSE
      OBVIOUS
    <3>1. j \in 0 .. depth /\ k \in 0 .. depth /\ j # k
      OBVIOUS
    <3> HIDE DEF c
    <3> QED BY <2>3, <3>1, LineOnce DEF c
  <2>5. k .. depth - 1 = {k} \cup (k + 1 .. depth - 1) /\ k + 1 .. depth - 1 \subseteq 0 .. depth - 1
    OBVIOUS
  <2> HIDE DEF s, r, b, c
  <2>6. r \in Memory /\ SameTree(s, r)
    BY <2>1, <2>2, <2>3, SetBalance
  <2>7. r.past = s.past /\ \A x \in Node : r.balance[x] = IF x = c(k) THEN b ELSE s.balance[x]
    BY <2>1, <2>2, <2>3 DEF Memory
  <2>8. SameTree(up[depth].m, r)
    BY <2>2, <2>6 DEF SameTree
  <2>9. \A j \in k .. depth - 1 : r.balance[c(j)] = up[j + 1].balance
    <3> SUFFICES ASSUME NEW j \in k .. depth - 1 PROVE r.balance[c(j)] = up[j + 1].balance
      OBVIOUS
    <3>1. CASE j = k
      BY <2>3, <2>7, <3>1 DEF b
    <3>2. CASE j # k
      <4>1. j \in k + 1 .. depth - 1
        BY <3>2
      <4> QED BY <2>2, <2>3, <2>4, <2>5, <2>7, <4>1
    <3> QED BY <3>1, <3>2
  <2>10. ASSUME NEW x \in Node, \A j \in k .. depth - 1 : x # c(j)
         PROVE  r.balance[x] = up[depth].m.balance[x]
    BY <2>2, <2>5, <2>7, <2>10
  <2> QED BY <2>2, <2>6, <2>7, <2>8, <2>9, <2>10 DEF r
<1> HIDE DEF OK
<1>3. S = {}
  <2> SUFFICES ASSUME S # {} PROVE FALSE
    OBVIOUS
  <2>1. PICK i \in S : \A j \in S : i <= j
    <3>1. S \subseteq Nat
      OBVIOUS
    <3> QED BY <3>1, LeastNat, Zenon
  <2>2. i \in 0 .. depth /\ ~OK(depth - i)
    BY <2>1
  <2>3. i # 0
    BY <1>1, <2>2
  <2>4. i - 1 \in 0 .. depth /\ ~(i <= i - 1) /\ depth - i \in 0 .. depth - 1
        /\ depth - (i - 1) = (depth - i) + 1
    BY <2>2, <2>3
  <2>5. OK(depth - (i - 1))
    BY <2>1, <2>4
  <2> QED BY <1>2, <2>2, <2>4, <2>5
<1>4. depth \in 0 .. depth /\ depth - depth = 0
  OBVIOUS
<1>5. OK(0)
  BY <1>3, <1>4
<1> QED BY <1>5 DEF OK, c, Settled

(* _insert has come to the empty place at[depth], has hung n in there, and *)
(* the calls back have only stored balances.                               *)
Inserted(m, n, at, depth, same, changed, up) ==
    /\ Line(m, at, depth) /\ Get(m, at[depth]) = Null
    /\ n \in Node /\ n \notin Live(m)
    /\ \A d \in Dirs : m.child[n][d] = Null
    /\ m.balance[n] = 0
    /\ \A k \in 0 .. depth : /\ same[k] = ParentBalance(m, at[k])
                             /\ changed[k] = same[k] + AsBalance(Dir(at[k]))
    /\ up[depth].m = Put(m, at[depth], n) /\ up[depth].balance = changed[depth]
    /\ Quiet(m, at, depth, TRUE, same, changed, up)

(* Whether the tree at a place of the line has grown: e[k] is 1 or 0, and  *)
(* b is what the node at at[k] is given for its balance.                   *)
Growth(m, at, depth, up, e) ==
    /\ e[depth] = 1 /\ \A k \in 0 .. depth : e[k] \in {0, 1}
    /\ \A k \in 0 .. depth - 1 :
          LET b == up[k + 1].balance
              x == Get(m, at[k])
          IN  /\ at[k + 1][1] = x /\ at[k + 1][2] \in Dirs
              /\ b = m.balance[x] + e[k + 1] * AsBalance(at[k + 1][2])
              /\ b \notin {2, -2}
              /\ e[k] = IF b # m.balance[x] /\ b # 0 THEN 1 ELSE 0

Rise(depth, same, up) == [k \in 0 .. depth |-> IF up[k].balance # same[k] THEN 1 ELSE 0]

(* That is what a call returns.                                            *)
LEMMA GrowthReturned ==
  ASSUME NEW m \in Memory, NEW n, NEW at, NEW depth \in Nat, NEW same, NEW changed, NEW up,
         Inserted(m, n, at, depth, same, changed, up)
  PROVE  Growth(m, at, depth, up, Rise(depth, same, up))
<1> DEFINE e == Rise(depth, same, up)
<1>1. ASSUME NEW k \in 0 .. depth
      PROVE  /\ same[k] \in Int /\ AsBalance(Dir(at[k])) \in {1, -1}
             /\ changed[k] = same[k] + AsBalance(Dir(at[k])) /\ changed[k] # same[k]
             /\ same[k] = ParentBalance(m, at[k])
  <2>1. at[k] \in Place
    BY LinePlace DEF Inserted
  <2>2. Dir(at[k]) \in Dirs /\ ParentBalance(m, at[k]) \in Int
    BY <2>1, Arguments
  <2>3. AsBalance(Dir(at[k])) \in {1, -1}
    BY <2>2 DEF AsBalance, Dirs, LEFT, RIGHT
  <2> QED BY <2>2, <2>3 DEF Inserted
<1>2. \A k \in 0 .. depth : e[k] = IF up[k].balance # same[k] THEN 1 ELSE 0
  BY DEF Rise
<1> HIDE DEF e
<1>3. depth \in 0 .. depth /\ \A k \in 0 .. depth - 1 : k \in 0 .. depth /\ k + 1 \in 1 .. depth
                                                        /\ k + 1 \in 0 .. depth
  OBVIOUS
<1>4. e[depth] = 1
  BY <1>1, <1>2, <1>3 DEF Inserted
<1>5. ASSUME NEW k \in 0 .. depth - 1
      PROVE  /\ up[k].balance = IF up[k + 1].balance # m.balance[Get(m, at[k])]
                                   /\ up[k + 1].balance # 0
                                THEN changed[k] ELSE same[k]
             /\ up[k + 1].balance \notin {2, -2}
  BY DEF Inserted, Quiet, Stored
<1>6. ASSUME NEW k \in 0 .. depth
      PROVE  up[k].balance = same[k] + e[k] * AsBalance(Dir(at[k]))
  <2>1. up[k].balance = same[k] \/ up[k].balance = changed[k]
    <3>1. CASE k = depth
      BY <3>1 DEF Inserted
    <3>2. CASE k # depth
      <4>1. k \in 0 .. depth - 1
        BY <3>2
      <4> QED BY <1>5, <4>1
    <3> QED BY <3>1, <3>2
  <2> QED BY <1>1, <1>2, <2>1
<1>7. ASSUME NEW k \in 0 .. depth - 1
      PROVE  LET b == up[k + 1].balance
                 x == Get(m, at[k])
             IN  /\ at[k + 1][1] = x /\ at[k + 1][2] \in Dirs
                 /\ b = m.balance[x] + e[k + 1] * AsBalance(at[k + 1][2])
                 /\ b \notin {2, -2}
                 /\ e[k] = IF b # m.balance[x] /\ b # 0 THEN 1 ELSE 0
  <2> DEFINE b == up[k + 1].balance
             x == Get(m, at[k])
  <2>1. k + 1 \in 1 .. depth /\ k + 1 \in 0 .. depth /\ (k + 1) - 1 = k /\ k \in 0 .. depth
    BY <1>3
  <2>2. at[k + 1] \in Node \X Dirs /\ at[k + 1][1] = x /\ at[k + 1][2] \in Dirs
    <3>1. Line(m, at, depth)
      BY DEF Inserted
    <3>2. k + 1 \in 1 .. depth
      BY <2>1
    <3>3. at[k + 1] \in Node \X Dirs /\ at[k + 1][1] = Get(m, at[(k + 1) - 1])
          /\ at[k + 1][2] \in Dirs
      BY <3>1, <3>2, LineAt
    <3> QED BY <2>1, <3>3
  <2>3. at[k + 1] # Top
    BY <2>2, GetIs
  <2>4. Dir(at[k + 1]) = at[k + 1][2] /\ same[k + 1] = m.balance[x]
    BY <1>1, <2>1, <2>2, <2>3 DEF Dir, ParentBalance
  <2>5. b = m.balance[x] + e[k + 1] * AsBalance(at[k + 1][2])
    BY <1>6, <2>1, <2>4
  <2>6. up[k].balance # same[k] <=> b # m.balance[x] /\ b # 0
    BY <1>1, <1>5, <2>1
  <2>7. e[k] = IF b # m.balance[x] /\ b # 0 THEN 1 ELSE 0
    BY <1>2, <2>1, <2>6
  <2> QED BY <1>5, <2>2, <2>5, <2>7
<1> QED BY <1>2, <1>4, <1>7 DEF Growth, e

(* The heights with n, when those of the nodes of the line grow by e.      *)
Regrown(m, n, at, depth, e, h, g) ==
    /\ g \in [Pointer -> Nat] /\ g[n] = 1
    /\ \A k \in 0 .. depth - 1 : g[Get(m, at[k])] = h[Get(m, at[k])] + e[k]
    /\ \A x \in Pointer : x # n /\ (\A k \in 0 .. depth - 1 : x # Get(m, at[k])) => g[x] = h[x]

(* There are such heights.                                                 *)
LEMMA RegrownExists ==
  ASSUME NEW m \in Memory, Ordered(m), NEW at, NEW depth \in Nat, Line(m, at, depth),
         NEW n \in Node, n \notin Live(m),
         \A k \in 0 .. depth - 1 : Get(m, at[k]) \in Live(m),
         NEW e, \A k \in 0 .. depth : e[k] \in {0, 1}, NEW h \in [Pointer -> Nat]
  PROVE  \E g : Regrown(m, n, at, depth, e, h, g)
<1> DEFINE c(k)     == Get(m, at[k])
           which(x) == CHOOSE k \in 0 .. depth - 1 : x = c(k)
           on(x)    == \E k \in 0 .. depth - 1 : x = c(k)
           by(x)    == IF x = n THEN 1 ELSE IF on(x) THEN h[x] + e[which(x)] ELSE h[x]
           g        == [x \in Pointer |-> by(x)]
<1>1. \A k \in 0 .. depth - 1 : k \in 0 .. depth
  OBVIOUS
<1>2. \A k \in 0 .. depth - 1 : c(k) \in Live(m) /\ c(k) # n /\ c(k) # Null /\ c(k) \in Pointer
  BY LiveIs, NType DEF Pointer
<1>3. ASSUME NEW j \in 0 .. depth - 1, NEW k \in 0 .. depth - 1, c(j) = c(k) PROVE j = k
  <2>1. j \in 0 .. depth /\ k \in 0 .. depth /\ c(k) # Null
    BY <1>1, <1>2
  <2> QED BY <1>3, <2>1, LineOnce
<1> HIDE DEF c
<1>4. \A k \in 0 .. depth - 1 : which(c(k)) = k
  BY <1>3
<1>5. \A k \in 0 .. depth - 1 : on(c(k)) /\ by(c(k)) = h[c(k)] + e[k]
  <2> HIDE DEF which
  <2> QED BY <1>2, <1>4
<1>6. \A x \in Pointer : x # n /\ (\A k \in 0 .. depth - 1 : x # c(k)) => by(x) = h[x]
  OBVIOUS
<1>7. ASSUME NEW x \in Pointer PROVE by(x) \in Nat
  <2>1. CASE x = n
    BY <2>1
  <2>2. CASE x # n /\ on(x)
    <3>1. PICK k \in 0 .. depth - 1 : x = c(k)
      BY <2>2
    <3>2. by(x) = h[x] + e[k] /\ e[k] \in {0, 1} /\ h[x] \in Nat
      BY <1>1, <1>5, <3>1
    <3> HIDE DEF by
    <3> QED BY <3>2
  <2>3. CASE x # n /\ ~on(x)
    BY <1>6, <2>3
  <2> QED BY <2>1, <2>2, <2>3
<1>8. by(n) = 1 /\ n \in Pointer
  BY DEF Pointer
<1> HIDE DEF by
<1>9. g \in [Pointer -> Nat] /\ \A x \in Pointer : g[x] = by(x)
  BY <1>7
<1> HIDE DEF g
<1>10. g[n] = 1
  BY <1>8, <1>9
<1>11. \A k \in 0 .. depth - 1 : g[c(k)] = h[c(k)] + e[k]
  BY <1>2, <1>5, <1>9
<1>12. \A x \in Pointer : x # n /\ (\A k \in 0 .. depth - 1 : x # c(k)) => g[x] = h[x]
  BY <1>6, <1>9
<1>13. Regrown(m, n, at, depth, e, h, g)
  BY <1>9, <1>10, <1>11, <1>12 DEF Regrown, c
<1> QED BY <1>13

(* A side of a node that is not on the way down to n stays what it is.     *)
LEMMA OffTheLine ==
  ASSUME NEW m \in Memory, Ordered(m), NEW at, NEW depth \in Nat, Line(m, at, depth),
         NEW n \in Node, n \notin Live(m), Get(m, at[depth]) = Null,
         NEW t, t = Put(m, at[depth], n),
         NEW e, NEW h, NEW g, Regrown(m, n, at, depth, e, h, g),
         \A k \in 0 .. depth - 1 : Get(m, at[k]) \in Live(m),
         NEW x \in Live(m), NEW d \in Dirs,
         \A j \in 1 .. depth : ~(at[j][1] = x /\ at[j][2] = d)
  PROVE  t.child[x][d] = m.child[x][d] /\ g[m.child[x][d]] = h[m.child[x][d]]
<1> DEFINE y == m.child[x][d]
<1>1. x \in Node /\ y \in Live(m) \cup {Null} /\ y \in Pointer /\ n \in Pointer /\ Null # n
  BY LiveIs, NType DEF Pointer
<1>2. depth \in 0 .. depth /\ (depth # 0 => depth \in 1 .. depth)
      /\ \A k \in 0 .. depth - 1 : k \in 0 .. depth
  OBVIOUS
<1>3. at[depth] \in Place /\ (at[depth] = Top <=> depth = 0)
  BY <1>2, LinePlace
<1>4. t.child[x][d] = y
  <2>1. CASE depth = 0
    BY <1>1, <1>3, <2>1, PutIs
  <2>2. CASE depth # 0
    BY <1>1, <1>2, <1>3, <2>2, PutIs
  <2> QED BY <2>1, <2>2
<1>5. ASSUME NEW k \in 0 .. depth - 1, y = Get(m, at[k]) PROVE FALSE
  <2>1. k \in 0 .. depth /\ Get(m, at[k]) # Null
    BY <1>2, LiveIs, NType
  <2>2. k # 0 /\ at[k][1] = x /\ at[k][2] = d
    BY <1>5, <2>1, LineParent
  <2>3. k \in 1 .. depth
    BY <2>1, <2>2
  <2> QED BY <2>2, <2>3
<1>6. y # n
  BY <1>1
<1> HIDE DEF y
<1>7. g[y] = h[y]
  BY <1>1, <1>5, <1>6 DEF Regrown
<1> QED BY <1>4, <1>7 DEF y

(* After an insertion whose calls back have only stored balances, these    *)
(* are right again, for heights that have grown along the line.            *)
LEMMA InsertHeights ==
  ASSUME NEW m \in Memory, Ordered(m), NEW n, NEW at, NEW depth \in Nat, NEW same,
         NEW changed, NEW up, Inserted(m, n, at, depth, same, changed, up),
         NEW h, Heights(m, h), up[0].m \in Memory, Live(up[0].m) \subseteq Live(m) \cup {n}
  PROVE  \E g : Heights(up[0].m, g)
<1> DEFINE r == up[0].m
           t == up[depth].m
           e == Rise(depth, same, up)
           c(k) == Get(m, at[k])
<1>1. /\ Line(m, at, depth) /\ Get(m, at[depth]) = Null
      /\ n \in Node /\ n \notin Live(m) /\ (\A d \in Dirs : m.child[n][d] = Null)
      /\ m.balance[n] = 0 /\ t = Put(m, at[depth], n)
      /\ Quiet(m, at, depth, TRUE, same, changed, up)
  BY DEF Inserted
<1>2. depth \in 0 .. depth /\ (depth # 0 => depth \in 1 .. depth)
      /\ \A k \in 0 .. depth - 1 : k \in 0 .. depth /\ k + 1 \in 1 .. depth /\ k + 1 \in 0 .. depth
                                   /\ (k + 1) - 1 = k
  OBVIOUS
<1>3. at[depth] \in Place /\ (at[depth] = Top <=> depth = 0) /\ n \in Pointer /\ Null # n
      /\ Null \in Pointer
  BY <1>1, <1>2, LinePlace, NType DEF Pointer
<1>4. /\ t \in Memory /\ t.balance = m.balance /\ Get(t, at[depth]) = n
      /\ at[depth] = Top => t.child = m.child
      /\ at[depth] # Top => \A w \in Node, f \in Dirs :
            t.child[w][f] = IF w = at[depth][1] /\ f = at[depth][2] THEN n ELSE m.child[w][f]
  BY <1>1, <1>3, PutIs
<1>5. \A k \in 0 .. depth - 1 : c(k) \in Live(m) /\ c(k) \in Node /\ c(k) # Null
  BY <1>1, LiveIs, NType DEF Quiet
<1>6. /\ SameTree(t, r)
      /\ \A k \in 0 .. depth - 1 : r.balance[c(k)] = up[k + 1].balance
      /\ \A x \in Node : (\A k \in 0 .. depth - 1 : x # c(k)) => r.balance[x] = t.balance[x]
  <2>1. Settled(m, at, depth, up)
    <3>1. up[depth].m \in Memory /\ Line(m, at, depth)
          /\ Quiet(m, at, depth, TRUE, same, changed, up)
      BY <1>1, <1>4
    <3> QED BY <3>1, QuietIs, Zenon
  <2> QED BY <2>1 DEF Settled
<1>7. /\ e[depth] = 1 /\ \A k \in 0 .. depth : e[k] \in {0, 1}
      /\ \A k \in 0 .. depth - 1 :
            LET b == up[k + 1].balance
                x == c(k)
            IN  /\ at[k + 1][1] = x /\ at[k + 1][2] \in Dirs
                /\ b = m.balance[x] + e[k + 1] * AsBalance(at[k + 1][2])
                /\ b \notin {2, -2}
                /\ e[k] = IF b # m.balance[x] /\ b # 0 THEN 1 ELSE 0
  <2>1. Growth(m, at, depth, up, e)
    BY GrowthReturned
  <2> HIDE DEF e
  <2> QED BY <2>1 DEF Growth
<1> HIDE DEF e, r, t
<1>8. h \in [Pointer -> Nat] /\ h[Null] = 0 /\ \A x \in Live(m) : Level(m, h, x)
  BY DEF Heights
<1>9. PICK g : Regrown(m, n, at, depth, e, h, g)
  BY <1>1, <1>5, <1>7, <1>8, RegrownExists
<1>10. /\ g \in [Pointer -> Nat] /\ g[n] = 1
       /\ \A k \in 0 .. depth - 1 : g[c(k)] = h[c(k)] + e[k]
       /\ \A x \in Pointer : x # n /\ (\A k \in 0 .. depth - 1 : x # c(k)) => g[x] = h[x]
  BY <1>9 DEF Regrown
<1>11. g[Null] = 0
  BY <1>3, <1>5, <1>8, <1>10
<1>12. r.child = t.child
  BY <1>6 DEF SameTree
<1>13. ASSUME NEW x \in Live(m), NEW d \in Dirs,
              \A j \in 1 .. depth : ~(at[j][1] = x /\ at[j][2] = d)
       PROVE  r.child[x][d] = m.child[x][d] /\ g[m.child[x][d]] = h[m.child[x][d]]
  BY <1>1, <1>5, <1>9, <1>12, <1>13, OffTheLine
<1>14. LEFT \in Dirs /\ RIGHT \in Dirs /\ LEFT # RIGHT /\ \A d \in Dirs : d = LEFT \/ d = RIGHT
  BY DEF Dirs, LEFT, RIGHT
<1>15. ASSUME NEW k \in 0 .. depth - 1
       PROVE  /\ g[r.child[c(k)][at[k + 1][2]]] = h[m.child[c(k)][at[k + 1][2]]] + e[k + 1]
              /\ \A d \in Dirs : d # at[k + 1][2] =>
                    /\ r.child[c(k)][d] = m.child[c(k)][d]
                    /\ g[m.child[c(k)][d]] = h[m.child[c(k)][d]]
  <2> DEFINE x == c(k)
             s == at[k + 1][2]
  <2>1. /\ x \in Live(m) /\ x \in Node /\ s \in Dirs /\ at[k + 1][1] = x
        /\ Get(m, at[k + 1]) = m.child[x][s]
    <3>1. k + 1 \in 1 .. depth
      BY <1>2
    <3> QED BY <1>1, <1>5, <1>7, <3>1, LineAt
  <2>2. ASSUME NEW j \in 1 .. depth, at[j][1] = x PROVE j = k + 1
    <3>1. j - 1 \in 0 .. depth /\ k \in 0 .. depth
      BY <1>2
    <3>2. at[j][1] = Get(m, at[j - 1])
      BY <1>1, LineAt
    <3>3. j - 1 = k
      <4> DEFINE i == j - 1
      <4>1. i \in 0 .. depth /\ Get(m, at[i]) = Get(m, at[k]) /\ Get(m, at[k]) # Null
        BY <1>5, <2>2, <3>1, <3>2
      <4> HIDE DEF i
      <4>2. i = k
        BY <1>1, <3>1, <4>1, LineOnce, Zenon
      <4> QED BY <4>2 DEF i
    <3> QED BY <3>3
  <2>3. ASSUME NEW d \in Dirs, d # s
        PROVE  r.child[x][d] = m.child[x][d] /\ g[m.child[x][d]] = h[m.child[x][d]]
    <3>1. \A j \in 1 .. depth : ~(at[j][1] = x /\ at[j][2] = d)
      BY <2>2, <2>3
    <3> HIDE DEF x, s
    <3> QED BY <1>13, <2>1, <3>1
  <2>4. g[r.child[x][s]] = h[m.child[x][s]] + e[k + 1]
    <3>1. CASE k + 1 = depth
      <4>1. r.child[x][s] = n
        BY <1>3, <1>4, <1>12, <2>1, <3>1
      <4>2. m.child[x][s] = Null
        BY <1>1, <2>1, <3>1
      <4> QED BY <1>7, <1>8, <1>10, <3>1, <4>1, <4>2
    <3>2. CASE k + 1 # depth
      <4>1. k + 1 \in 0 .. depth - 1
        BY <3>2
      <4>2. m.child[x][s] = c(k + 1)
        BY <2>1
      <4>3. r.child[x][s] = m.child[x][s]
        <5>1. depth # 0 /\ depth \in 1 .. depth
          OBVIOUS
        <5>2. ~(x = at[depth][1])
          BY <2>2, <3>2, <5>1
        <5> QED BY <1>3, <1>4, <1>12, <2>1, <5>1, <5>2
      <4> QED BY <1>10, <4>1, <4>2, <4>3
    <3> QED BY <3>1, <3>2
  <2> QED BY <2>3, <2>4
<1>16. ASSUME NEW k \in 0 .. depth - 1 PROVE Level(r, g, c(k))
  <2> DEFINE x == c(k)
             s == at[k + 1][2]
             l == h[m.child[x][LEFT]]
             q == h[m.child[x][RIGHT]]
             b == up[k + 1].balance
             l2 == g[r.child[x][LEFT]]
             q2 == g[r.child[x][RIGHT]]
  <2>1. /\ x \in Live(m) /\ s \in Dirs /\ e[k + 1] \in {0, 1} /\ e[k] \in {0, 1}
        /\ r.balance[x] = b /\ b = m.balance[x] + e[k + 1] * AsBalance(s) /\ b \notin {2, -2}
        /\ e[k] = IF b # m.balance[x] /\ b # 0 THEN 1 ELSE 0
        /\ g[x] = h[x] + e[k]
    BY <1>2, <1>5, <1>6, <1>7, <1>10
  <2>2. m.child[x][LEFT] \in Pointer /\ m.child[x][RIGHT] \in Pointer
    BY <1>14, <2>1, LiveIs
  <2>3. l \in Nat /\ q \in Nat
    BY <1>8, <2>2
  <2>4. h[x] = 1 + Higher(l, q) /\ m.balance[x] = q - l /\ m.balance[x] \in -1 .. 1
    BY <1>8, <2>1 DEF Level
  <2>5. /\ l2 = IF s = LEFT THEN l + e[k + 1] ELSE l
        /\ q2 = IF s = RIGHT THEN q + e[k + 1] ELSE q
    BY <1>14, <1>15, <2>1
  <2> HIDE DEF x, s, l, q, b, l2, q2
  <2>6. b = (q - l) + e[k + 1] * AsBalance(s)
    BY <2>1, <2>4
  <2>7. /\ b \in -1 .. 1 /\ b = q2 - l2
        /\ (1 + Higher(l, q)) + e[k] = 1 + Higher(l2, q2)
    <3>1. q - l \in -1 .. 1 /\ e[k] = IF b # q - l /\ b # 0 THEN 1 ELSE 0
      BY <2>1, <2>4
    <3>2. /\ l2 = IF s = LEFT THEN l + e[k + 1] ELSE l
          /\ q2 = IF s = RIGHT THEN q + e[k + 1] ELSE q
          /\ l \in Nat /\ q \in Nat /\ s \in Dirs /\ e[k + 1] \in {0, 1} /\ b \notin {2, -2}
      BY <2>1, <2>3, <2>5
    <3>3. Taller(l, q, s, e[k + 1], b, l2, q2, e[k])
      BY <2>6, <3>1, <3>2 DEF Taller
    <3> QED BY <3>3, Grows
  <2>8. g[x] = 1 + Higher(l2, q2)
    BY <2>1, <2>4, <2>7
  <2>9. g[x] = 1 + Higher(l2, q2) /\ r.balance[x] = q2 - l2 /\ r.balance[x] \in -1 .. 1
    BY <2>1, <2>7, <2>8
  <2> QED BY <2>9 DEF Level, l2, q2, x
<1>17. ASSUME NEW x \in Live(m), \A k \in 0 .. depth - 1 : x # c(k) PROVE Level(r, g, x)
  <2>1. ASSUME NEW d \in Dirs
        PROVE  r.child[x][d] = m.child[x][d] /\ g[m.child[x][d]] = h[m.child[x][d]]
    <3>1. ASSUME NEW j \in 1 .. depth PROVE at[j][1] # x
      <4>1. j - 1 \in 0 .. depth - 1
        OBVIOUS
      <4>2. at[j][1] = Get(m, at[j - 1])
        BY <1>1, LineAt
      <4> QED BY <1>17, <4>1, <4>2
    <3> QED BY <1>13, <3>1
  <2>2. x \in Node /\ x \in Pointer /\ x # n
    BY <1>1, LiveIs DEF Pointer
  <2>3. r.balance[x] = m.balance[x] /\ g[x] = h[x]
    BY <1>4, <1>6, <1>10, <1>17, <2>2
  <2>4. Level(m, h, x)
    BY <1>8
  <2> QED BY <1>14, <2>1, <2>3, <2>4 DEF Level
<1>18. Level(r, g, n)
  <2>1. ASSUME NEW d \in Dirs PROVE r.child[n][d] = Null
    <3>1. CASE depth = 0
      BY <1>1, <1>3, <1>4, <1>12, <3>1
    <3>2. CASE depth # 0
      <4>1. at[depth][1] \in Live(m)
        BY <1>1, <1>2, <3>2, LineAt
      <4>2. at[depth] # Top /\ n # at[depth][1]
        BY <1>1, <1>3, <3>2, <4>1
      <4>3. t.child[n][d] = m.child[n][d]
        BY <1>1, <1>4, <4>2
      <4> QED BY <1>1, <1>12, <4>3
    <3> QED BY <3>1, <3>2
  <2>2. r.balance[n] = 0
    BY <1>1, <1>4, <1>5, <1>6
  <2>3. g[r.child[n][LEFT]] = 0 /\ g[r.child[n][RIGHT]] = 0
    BY <1>11, <1>14, <2>1
  <2> QED BY <1>10, <2>2, <2>3 DEF Level, Higher
<1>19. \A x \in Live(r) : Level(r, g, x)
  <2> SUFFICES ASSUME NEW x \in Live(r) PROVE Level(r, g, x)
    OBVIOUS
  <2>1. x \in Live(m) \/ x = n
    BY DEF r
  <2> QED BY <1>16, <1>17, <1>18, <2>1
<1> QED BY <1>10, <1>11, <1>19 DEF Heights, r

(* An insertion after which nothing has gone wrong: nothing had before, no *)
(* node is lost, and the balances are right if they were.                  *)
LEMMA InsertWhole ==
  ASSUME NEW m \in Memory, Ordered(m), NEW n \in Node, n \notin Live(m),
         \A d \in Dirs : m.child[n][d] = Null, m.balance[n] = 0,
         NEW r, r = Insert(m, n), Whole(r)
  PROVE  /\ Whole(m) /\ r.past = m.past /\ Live(m) \cup {n} \subseteq Live(r)
         /\ \A h : Heights(m, h) => \E g : Heights(r, g)
<1>1. PICK at, depth, last, turn, same, changed :
         Inserting(m, n, at, depth, last, turn, same, changed)
  BY InsertCalls, Zenon
<1>2. Sound(last.m, Live(m) \cup {n}, at, depth)
  BY <1>1, InsertStarts, Zenon
<1> DEFINE up == Back(m, at, depth, last, turn, TRUE, same, changed)
<1>3. up = Back(m, at, depth, last, turn, TRUE, same, changed)
  OBVIOUS
<1> HIDE DEF up
<1>4. /\ depth \in Nat /\ Line(m, at, depth) /\ Get(m, at[depth]) = Null
      /\ \A j \in 0 .. depth - 1 : Get(m, at[j]) \in Live(m)
      /\ \A k \in 0 .. depth : /\ same[k] = ParentBalance(m, at[k])
                               /\ changed[k] = same[k] + AsBalance(Dir(at[k]))
      /\ last.m = Put(m, at[depth], n) /\ last.balance = changed[depth] /\ last.balance \in Int
      /\ Calls(m, at, depth, turn, same, changed)
      /\ r = up[0].m
  BY <1>1, <1>3 DEF Inserting
<1>5. BackFine(m, at, depth, last, turn, TRUE, same, changed, Live(m) \cup {n}, up)
  BY <1>2, <1>3, <1>4 DEF BackFine
<1>6. /\ up[depth] = last /\ Whole(last.m)
      /\ Quiet(m, at, depth, TRUE, same, changed, up)
  BY <1>5, BackWhole, Zenon
<1>7. up[depth].m \in Memory
  BY <1>2, <1>6 DEF Sound
<1>8. SameTree(last.m, r) /\ r \in Memory /\ r.past = last.m.past
  <2>1. Settled(m, at, depth, up)
    BY <1>4, <1>6, <1>7, QuietIs, Zenon
  <2> QED BY <1>4, <1>6, <2>1 DEF Settled
<1>9. last.m \in Memory /\ last.m.past = m.past /\ last.m.alive = m.alive
  <2>1. depth \in 0 .. depth /\ n \in Pointer
    BY <1>4 DEF Pointer
  <2>2. at[depth] \in Place
    BY <1>4, <2>1, LinePlace
  <2> QED BY <1>4, <2>1, <2>2, PutIs
<1>10. Live(r) = Live(last.m)
  BY <1>8, <1>9, SameOrder
<1>11. Live(m) \cup {n} \subseteq Live(last.m)
  <2>1. Line(last.m, at, depth)
    BY <1>2 DEF Sound
  <2> QED BY <1>4, <2>1, Grafted
<1>12. ASSUME NEW h, Heights(m, h) PROVE \E g : Heights(r, g)
  <2>1. Inserted(m, n, at, depth, same, changed, up)
    BY <1>4, <1>6 DEF Inserted
  <2>2. up[0].m \in Memory /\ Live(up[0].m) \subseteq Live(m) \cup {n}
    BY <1>2, <1>4, <1>8, <1>10 DEF Sound
  <2>3. \E g : Heights(up[0].m, g)
    BY <1>4, <1>12, <2>1, <2>2, InsertHeights, Zenon
  <2> QED BY <1>4, <2>3
<1> QED BY <1>6, <1>8, <1>9, <1>10, <1>11, <1>12 DEF Whole

(* Likewise a removal: it loses no other node, and if it has found none it *)
(* has changed nothing.                                                    *)
LEMMA DeleteWhole ==
  ASSUME NEW m \in Memory, Ordered(m), NEW n \in Node, NEW r, r = Delete(m, n), Whole(r.m)
  PROVE  /\ Whole(m) /\ Live(m) \ {r.found} \subseteq Live(r.m)
         /\ \/ "removal" \in r.m.past
            \/ /\ r.m.past = m.past /\ SameTree(m, r.m)
               /\ \A x \in Node : r.m.balance[x] = m.balance[x]
<1>1. PICK c, at, depth, last, turn, same, changed :
         Deleting(m, n, c, at, depth, last, turn, same, changed)
  BY DeleteCalls, Zenon
<1>2. Sound(last.m, Live(m) \ {c}, at, depth)
  BY <1>1, DeleteStarts, Zenon
<1> DEFINE up == Back(m, at, depth, last, turn, FALSE, same, changed)
<1>3. up = Back(m, at, depth, last, turn, FALSE, same, changed)
  OBVIOUS
<1> HIDE DEF up
<1>4. /\ depth \in Nat /\ Line(m, at, depth) /\ c = Get(m, at[depth])
      /\ \A j \in 0 .. depth - 1 : Get(m, at[j]) \in Live(m)
      /\ \A k \in 0 .. depth : same[k] = ParentBalance(m, at[k])
      /\ \/ c = Null /\ last.m = m /\ last.balance = same[depth]
         \/ c \in Live(m) /\ IsLeaf(m, c) /\ last.m = Put(Gone(m), at[depth], Null)
         \/ c \in Live(m) /\ ~IsLeaf(m, c) /\ last.m = Replace(m, at[depth]).m
      /\ last.balance \in Int /\ Calls(m, at, depth, turn, same, changed)
      /\ r.found = c /\ r.m = up[0].m
  BY <1>1, <1>3 DEF Deleting
<1>5. BackFine(m, at, depth, last, turn, FALSE, same, changed, Live(m) \ {c}, up)
  BY <1>2, <1>3, <1>4 DEF BackFine
<1>6. /\ up[depth] = last /\ Whole(last.m)
      /\ Quiet(m, at, depth, FALSE, same, changed, up)
  BY <1>5, BackWhole, Zenon
<1>7. up[depth].m \in Memory
  BY <1>2, <1>6 DEF Sound
<1>8. Settled(m, at, depth, up)
  BY <1>4, <1>6, <1>7, QuietIs, Zenon
<1>9. SameTree(last.m, r.m) /\ r.m \in Memory /\ r.m.past = last.m.past
  BY <1>4, <1>6, <1>8 DEF Settled
<1>10. Live(r.m) = Live(last.m)
  BY <1>6, <1>7, <1>9, SameOrder
<1>11. CASE c = Null /\ last.m = m /\ last.balance = same[depth]
  <2> DEFINE S == {i \in 0 .. depth : up[depth - i].balance # same[depth - i]}
  <2>1. S = {}
    <3> SUFFICES ASSUME S # {} PROVE FALSE
      OBVIOUS
    <3>1. PICK i \in S : \A j \in S : i <= j
      <4>1. S \subseteq Nat
        BY <1>4
      <4> QED BY <4>1, LeastNat, Zenon
    <3> DEFINE k == depth - i
    <3>2. i \in 0 .. depth /\ up[k].balance # same[k]
      BY <3>1
    <3>3. i # 0
      BY <1>4, <1>6, <1>11, <3>2
    <3>4. /\ i - 1 \in 0 .. depth /\ ~(i <= i - 1) /\ k \in 0 .. depth - 1
          /\ depth - (i - 1) = k + 1 /\ k + 1 \in 0 .. depth /\ k + 1 \in 1 .. depth
          /\ (k + 1) - 1 = k
      BY <1>4, <3>2, <3>3
    <3>5. up[k + 1].balance = same[k + 1]
      BY <3>1, <3>4
    <3> HIDE DEF k
    <3>6. same[k + 1] = m.balance[Get(m, at[k])]
      <4> DEFINE p == at[k + 1]
      <4>1. p \in Node \X Dirs /\ p[1] = Get(m, at[(k + 1) - 1])
        BY <1>4, <3>4, LineAt
      <4>2. p # Top
        BY <4>1, GetIs
      <4>3. same[k + 1] = ParentBalance(m, p)
        BY <1>4, <3>4
      <4> HIDE DEF p
      <4> QED BY <3>4, <4>1, <4>2, <4>3 DEF ParentBalance
    <3>7. up[k].balance = same[k]
      <4>1. Stored(m, Get(m, at[k]), up[k + 1], FALSE, same[k], changed[k], up[k])
        BY <1>6, <3>4 DEF Quiet
      <4> QED BY <3>5, <3>6, <4>1 DEF Stored
    <3> QED BY <3>2, <3>7 DEF k
  <2>2. ASSUME NEW k \in 0 .. depth - 1 PROVE up[k + 1].balance = m.balance[Get(m, at[k])]
    <3>1. /\ k + 1 \in 0 .. depth /\ k + 1 \in 1 .. depth /\ (k + 1) - 1 = k
          /\ depth - (k + 1) \in 0 .. depth /\ depth - (depth - (k + 1)) = k + 1
      BY <1>4
    <3>2. up[k + 1].balance = same[k + 1]
      BY <2>1, <3>1
    <3> DEFINE p == at[k + 1]
    <3>3. p \in Node \X Dirs /\ p[1] = Get(m, at[(k + 1) - 1])
      BY <1>4, <3>1, LineAt
    <3>4. p # Top
      BY <3>3, GetIs
    <3>5. same[k + 1] = ParentBalance(m, p)
      BY <1>4, <3>1
    <3> HIDE DEF p
    <3> QED BY <3>1, <3>2, <3>3, <3>4, <3>5 DEF ParentBalance
  <2>3. \A x \in Node : r.m.balance[x] = m.balance[x]
    BY <1>4, <1>6, <1>8, <1>11, <2>2 DEF Settled
  <2> QED BY <1>4, <1>6, <1>9, <1>10, <1>11, <2>3
<1>12. CASE c \in Live(m) /\ IsLeaf(m, c) /\ last.m = Put(Gone(m), at[depth], Null)
  <2>1. /\ Gone(m) \in Memory /\ SameTree(m, Gone(m)) /\ "removal" \in Gone(m).past
        /\ Whole(Gone(m)) => Whole(m)
    BY DEF Memory, SameTree, Gone, Whole
  <2>2. last.m.past = Gone(m).past /\ last.m.alive = Gone(m).alive
    <3>1. depth \in 0 .. depth /\ Null \in Pointer
      BY <1>4 DEF Pointer
    <3>2. at[depth] \in Place
      BY <1>4, <3>1, LinePlace
    <3> QED BY <1>12, <2>1, <3>1, <3>2, PutIs
  <2>3. c \in Node /\ \A d \in Dirs : m.child[c][d] = Null
    BY <1>12, LiveIs DEF IsLeaf, Dirs
  <2>4. Live(m) \ {c} \subseteq Live(last.m)
    BY <1>4, <1>12, <2>1, <2>3, OnlyTheLeaf
  <2> QED BY <1>4, <1>6, <1>9, <1>10, <2>1, <2>2, <2>4 DEF Whole
<1>13. CASE c \in Live(m) /\ ~IsLeaf(m, c) /\ last.m = Replace(m, at[depth]).m
  <2>1. ~Whole(Replace(m, at[depth]).m)
    BY <1>4, <1>13, ReplaceKeeps DEF IsLeaf
  <2> QED BY <1>6, <1>13, <2>1
<1> QED BY <1>4, <1>11, <1>12, <1>13

(* Heights that are right stay right as long as the tree is the same.      *)
LEMMA SameHeights ==
  ASSUME NEW m \in Memory, NEW r \in Memory, NEW h, Heights(m, h), Live(r) = Live(m),
         \A n \in Live(m) : /\ r.balance[n] = m.balance[n]
                            /\ \A d \in Dirs : r.child[n][d] = m.child[n][d]
  PROVE  Heights(r, h)
<1>1. LEFT \in Dirs /\ RIGHT \in Dirs
  BY DEF Dirs
<1>2. ASSUME NEW n \in Live(m) PROVE Level(r, h, n)
  <2>1. Level(m, h, n)
    BY DEF Heights
  <2>2. /\ r.balance[n] = m.balance[n] /\ r.child[n][LEFT] = m.child[n][LEFT]
        /\ r.child[n][RIGHT] = m.child[n][RIGHT]
    BY <1>1
  <2> QED BY <2>1, <2>2 DEF Level
<1> QED BY <1>2 DEF Heights

(* Until something goes wrong, all nodes of the client are in the tree,    *)
(* and until a node is removed, there are heights that are right.          *)
Unspoilt ==
    Whole(heap) => /\ members \subseteq Live(heap)
                   /\ "removal" \notin heap.past => \E h : Heights(heap, h)

(* A new tree.                                                             *)
LEMMA UnspoiltInit ==
  ASSUME heap = Zero, members = {}
  PROVE  Unspoilt
<1> DEFINE h == [p \in Pointer |-> 0]
<1>1. h \in [Pointer -> Nat] /\ h[Null] = 0
  BY DEF Pointer
<1>2. Heights(heap, h)
  BY <1>1, ZeroIs DEF Heights
<1> QED BY <1>2 DEF Unspoilt

(* Every call of the client preserves it.                                  *)
LEMMA UnspoiltNext ==
  ASSUME AvlInv, Unspoilt, [Next]_vars
  PROVE  Unspoilt'
<1>1. heap \in Memory /\ members \subseteq Node /\ Ordered(heap)
      /\ Live(heap) \subseteq members /\ Fresh(heap)
  BY DEF AvlInv, TypeOK
<1>2. CASE UNCHANGED vars
  <2>1. heap' = heap /\ members' = members
    BY <1>2 DEF vars
  <2> QED BY <2>1 DEF Unspoilt
<1>3. CASE Alloc
  <2> DEFINE h == [p \in Pointer |-> 0]
  <2>1. heap' = Zero /\ members' = {}
    BY <1>3 DEF Alloc
  <2>2. h \in [Pointer -> Nat] /\ h[Null] = 0
    BY DEF Pointer
  <2>3. Heights(heap', h)
    BY <2>1, <2>2, ZeroIs DEF Heights
  <2> QED BY <2>1, <2>3 DEF Unspoilt
<1>4. ASSUME NEW n \in Node, Add(n) PROVE Unspoilt'
  <2> SUFFICES ASSUME Whole(heap')
               PROVE  /\ members' \subseteq Live(heap')
                      /\ "removal" \notin heap'.past => \E h : Heights(heap', h)
    BY DEF Unspoilt
  <2> DEFINE m == Insert(heap, n)
  <2>1. n \notin members /\ heap' = Collect(m) /\ members' = members \cup {n}
    BY <1>4 DEF Add
  <2>2. /\ n \notin Live(heap) /\ heap.balance[n] = 0
        /\ \A d \in Dirs : heap.child[n][d] = Null
    BY <1>1, <2>1 DEF Fresh
  <2>3. m \in Memory /\ Ordered(m) /\ m = Insert(heap, n)
    BY <1>1, <2>2, InsertKeeps
  <2> HIDE DEF m
  <2>4. heap' \in Memory /\ Kept(m, heap')
    BY <2>1, <2>3, CollectKeeps DEF Whole
  <2>5. Whole(m)
    BY <2>4 DEF Kept, Whole
  <2>6. /\ Whole(heap) /\ m.past = heap.past /\ Live(heap) \cup {n} \subseteq Live(m)
        /\ \A h : Heights(heap, h) => \E g : Heights(m, g)
    BY <1>1, <2>2, <2>3, <2>5, InsertWhole
  <2>7. members' \subseteq Live(heap')
    BY <2>1, <2>4, <2>6 DEF Unspoilt, Kept
  <2>8. ASSUME "removal" \notin heap'.past PROVE \E h : Heights(heap', h)
    <3>1. PICK h : Heights(heap, h)
      BY <2>4, <2>6, <2>8 DEF Unspoilt, Kept
    <3>2. PICK g : Heights(m, g)
      BY <2>6, <3>1
    <3>3. Heights(heap', g)
      BY <2>3, <2>4, <3>2, SameHeights DEF Kept
    <3> QED BY <3>3
  <2> QED BY <2>7, <2>8
<1>5. ASSUME NEW n \in Node, Del(n) PROVE Unspoilt'
  <2> SUFFICES ASSUME Whole(heap')
               PROVE  /\ members' \subseteq Live(heap')
                      /\ "removal" \notin heap'.past => \E h : Heights(heap', h)
    BY DEF Unspoilt
  <2> DEFINE r == Delete(heap, n)
  <2>1. heap' = Collect(r.m) /\ members' = members \ {r.found}
    BY <1>5 DEF Del
  <2>2. r.m \in Memory /\ Ordered(r.m) /\ r = Delete(heap, n)
    BY <1>1, DeleteKeeps
  <2> HIDE DEF r
  <2>3. heap' \in Memory /\ Kept(r.m, heap')
    BY <2>1, <2>2, CollectKeeps DEF Whole
  <2>4. Whole(r.m)
    BY <2>3 DEF Kept, Whole
  <2>5. /\ Whole(heap) /\ Live(heap) \ {r.found} \subseteq Live(r.m)
        /\ \/ "removal" \in r.m.past
           \/ /\ r.m.past = heap.past /\ SameTree(heap, r.m)
              /\ \A x \in Node : r.m.balance[x] = heap.balance[x]
    BY <1>1, <2>2, <2>4, DeleteWhole
  <2>6. members' \subseteq Live(heap')
    BY <2>1, <2>3, <2>5 DEF Unspoilt, Kept
  <2>7. ASSUME "removal" \notin heap'.past PROVE \E h : Heights(heap', h)
    <3>1. /\ r.m.past = heap.past /\ SameTree(heap, r.m)
          /\ \A x \in Node : r.m.balance[x] = heap.balance[x]
      BY <2>3, <2>5, <2>7 DEF Kept
    <3>2. PICK h : Heights(heap, h)
      BY <2>3, <2>5, <2>7, <3>1 DEF Unspoilt, Kept
    <3>3. Live(r.m) = Live(heap) /\ Live(heap) \subseteq Node /\ r.m.child = heap.child
      BY <1>1, <2>2, <3>1, SameOrder, LiveIs DEF SameTree
    <3>4. Heights(r.m, h)
      BY <1>1, <2>2, <3>1, <3>2, <3>3, SameHeights
    <3>5. Heights(heap', h)
      BY <2>2, <2>3, <3>4, SameHeights DEF Kept
    <3> QED BY <3>5
  <2> QED BY <2>6, <2>7
<1> QED BY <1>2, <1>3, <1>4, <1>5 DEF Next

(* The greater of two natural numbers.                                     *)
LEMMA MaxOfTwo ==
  ASSUME NEW a \in Nat, NEW b \in Nat
  PROVE  Max({a, b}) = Higher(a, b)
<1>1. \E x \in {a, b} : \A y \in {a, b} : x >= y
  OBVIOUS
<1>2. Max({a, b}) \in {a, b} /\ \A y \in {a, b} : Max({a, b}) >= y
  BY <1>1 DEF Max
<1> DEFINE x == Max({a, b})
<1> HIDE DEF x
<1>3. x \in {a, b} /\ x >= a /\ x >= b
  BY <1>2 DEF x
<1>4. x = Higher(a, b)
  BY <1>3 DEF Higher
<1> QED BY <1>4 DEF x

(* What the recursive definition of Height says of p.                      *)
OneMore(f, p) ==
    IF p = Null THEN 0 ELSE 1 + Max({f[heap.child[p][d]] : d \in {LEFT, RIGHT}})

(* See OneMore.                                                            *)
LEMMA OneMoreIs ==
  ASSUME NEW f, NEW p \in Node,
         \A d \in Dirs : f[heap.child[p][d]] \in Nat
  PROVE  OneMore(f, p) = 1 + Higher(f[heap.child[p][LEFT]], f[heap.child[p][RIGHT]])
<1> DEFINE a == f[heap.child[p][LEFT]]
           b == f[heap.child[p][RIGHT]]
<1>1. a \in Nat /\ b \in Nat
  BY DEF Dirs
<1>2. {f[heap.child[p][d]] : d \in {LEFT, RIGHT}} = {a, b}
  OBVIOUS
<1>3. p # Null
  BY NType
<1> HIDE DEF a, b
<1>4. Max({a, b}) = Higher(a, b)
  BY <1>1, MaxOfTwo
<1> QED BY <1>2, <1>3, <1>4 DEF OneMore, a, b

(* The recursive definition of Height has a solution.                      *)
LEMMA HeightSteps ==
  ASSUME AvlInv, NEW h, Heights(heap, h)
  PROVE  \A p \in Pointer : Height[p] = OneMore(Height, p)
<1> DEFINE L == Live(heap)
           f == [p \in Pointer |-> IF p = Null THEN 0 ELSE IF p \in L THEN h[p] ELSE 1]
<1>1. heap \in Memory /\ Fresh(heap)
  BY DEF AvlInv, TypeOK
<1>2. /\ L \subseteq Node /\ LEFT \in Dirs /\ RIGHT \in Dirs
      /\ \A n \in L, d \in Dirs : heap.child[n][d] \in L \cup {Null}
  BY <1>1, LiveIs DEF Dirs
<1>3. h \in [Pointer -> Nat] /\ h[Null] = 0 /\ \A n \in L : Level(heap, h, n)
  BY DEF Heights
<1>4. \A n \in Node \ L, d \in Dirs : heap.child[n][d] = Null
  BY <1>1 DEF Fresh
<1> HIDE DEF L
<1>5. /\ f[Null] = 0 /\ \A p \in L : f[p] = h[p] /\ h[p] \in Nat
      /\ \A p \in Node \ L : f[p] = 1
  BY <1>2, <1>3, NType DEF Pointer
<1>6. f = [p \in Pointer |-> f[p]]
  OBVIOUS
<1> HIDE DEF f
<1>7. ASSUME NEW p \in Pointer PROVE f[p] = OneMore(f, p)
  <2>1. CASE p = Null
    BY <1>5, <2>1 DEF OneMore
  <2>2. CASE p \in L
    <3>1. \A d \in Dirs : /\ f[heap.child[p][d]] = h[heap.child[p][d]]
                          /\ f[heap.child[p][d]] \in Nat
      BY <1>2, <1>3, <1>5, <2>2
    <3>2. OneMore(f, p) = 1 + Higher(h[heap.child[p][LEFT]], h[heap.child[p][RIGHT]])
      BY <1>2, <2>2, <3>1, OneMoreIs
    <3> QED BY <1>3, <1>5, <2>2, <3>2 DEF Level
  <2>3. CASE p \in Node \ L
    <3>1. \A d \in Dirs : f[heap.child[p][d]] = 0
      BY <1>4, <1>5, <2>3
    <3>2. OneMore(f, p) = 1 + Higher(f[heap.child[p][LEFT]], f[heap.child[p][RIGHT]])
      BY <2>3, <3>1, OneMoreIs
    <3>3. OneMore(f, p) = 1
      BY <1>2, <3>1, <3>2 DEF Higher
    <3> QED BY <1>5, <2>3, <3>3
  <2> QED BY <2>1, <2>2, <2>3 DEF Pointer
<1>8. f = [p \in Pointer |-> OneMore(f, p)]
  <2>1. [p \in Pointer |-> f[p]] = [p \in Pointer |-> OneMore(f, p)]
    BY <1>7
  <2> QED BY <1>6, <2>1
<1>9. f = [p \in Pointer |->
             IF p = Null THEN 0 ELSE 1 + Max({f[heap.child[p][d]] : d \in {LEFT, RIGHT}})]
  BY <1>8 DEF OneMore
<1>10. Height = [p \in Pointer |->
             IF p = Null THEN 0 ELSE 1 + Max({Height[heap.child[p][d]] : d \in {LEFT, RIGHT}})]
  BY <1>9, Zenon DEF Height
<1> DEFINE H == Height
<1> HIDE DEF H
<1>11. H = [p \in Pointer |-> OneMore(H, p)]
  BY <1>10 DEF OneMore, H
<1>12. \A p \in Pointer : H[p] = OneMore(H, p)
  BY <1>11
<1> QED BY <1>12 DEF H

(* There is only one: heights that are right are the heights.              *)
LEMMA HeightIs ==
  ASSUME AvlInv, NEW h, Heights(heap, h)
  PROVE  \A p \in Live(heap) \cup {Null} : Height[p] = h[p]
<1> DEFINE L == Live(heap)
           H == Height
           S == {h[p] : p \in {q \in L : H[q] # h[q]}}
<1>1. heap \in Memory
  BY DEF AvlInv, TypeOK
<1>2. /\ L \subseteq Node /\ LEFT \in Dirs /\ RIGHT \in Dirs
      /\ \A n \in L, d \in Dirs : heap.child[n][d] \in L \cup {Null}
  BY <1>1, LiveIs DEF Dirs
<1>3. h \in [Pointer -> Nat] /\ h[Null] = 0 /\ \A n \in L : Level(heap, h, n)
  BY DEF Heights
<1>4. \A p \in Pointer : H[p] = OneMore(H, p)
  BY HeightSteps
<1> HIDE DEF L, H
<1>5. H[Null] = 0
  BY <1>4 DEF OneMore, Pointer
<1>6. S = {}
  <2> SUFFICES ASSUME S # {} PROVE FALSE
    OBVIOUS
  <2>1. S \subseteq Nat
    BY <1>2, <1>3 DEF Pointer
  <2>2. PICK s \in S : \A t \in S : s <= t
    BY <2>1, LeastNat, Zenon
  <2>3. PICK p \in L : H[p] # h[p] /\ s = h[p]
    BY <2>2
  <2>4. p \in Node /\ p \in Pointer
    BY <1>2, <2>3 DEF Pointer
  <2> DEFINE l == heap.child[p][LEFT]
             r == heap.child[p][RIGHT]
  <2>5. l \in L \cup {Null} /\ r \in L \cup {Null} /\ l \in Pointer /\ r \in Pointer
    BY <1>2 DEF Pointer
  <2>6. h[p] = 1 + Higher(h[l], h[r])
    BY <1>3 DEF Level
  <2>7. h[l] \in Nat /\ h[r] \in Nat /\ h[p] \in Nat
    BY <1>3, <2>4, <2>5
  <2>8. h[l] < h[p] /\ h[r] < h[p]
    BY <2>6, <2>7 DEF Higher
  <2>9. ASSUME NEW q \in L \cup {Null}, h[q] < h[p], h[q] \in Nat PROVE H[q] = h[q]
    <3>1. CASE q = Null
      BY <1>3, <1>5, <3>1
    <3>2. CASE q \in L /\ H[q] # h[q]
      <4>1. h[q] \in S
        BY <3>2
      <4>2. h[p] <= h[q]
        BY <2>2, <2>3, <4>1
      <4> QED BY <2>7, <2>9, <4>2
    <3> QED BY <3>1, <3>2
  <2>10. H[l] = h[l] /\ H[r] = h[r]
    BY <2>5, <2>7, <2>8, <2>9
  <2>11. \A d \in Dirs : H[heap.child[p][d]] \in Nat
    BY <2>7, <2>10 DEF Dirs
  <2>12. OneMore(H, p) = 1 + Higher(H[l], H[r])
    BY <2>4, <2>11, OneMoreIs
  <2> QED BY <1>4, <2>3, <2>4, <2>6, <2>10, <2>12
<1> QED BY <1>3, <1>5, <1>6 DEF L, H

(* What the two invariants say of the tree until something goes wrong.     *)
LEMMA UnspoiltSound ==
  ASSUME AvlInv, Unspoilt
  PROVE  SoundUntilRepair
<1> SUFFICES ASSUME Whole(heap)
             PROVE  /\ Live(heap) = members
                    /\ "removal" \notin heap.past =>
                          \A n \in members :
                             /\ heap.balance[n] = Height[heap.child[n][RIGHT]]
                                                  - Height[heap.child[n][LEFT]]
                             /\ heap.balance[n] \in -1 .. 1
  BY DEF SoundUntilRepair, Whole, Live
<1>1. heap \in Memory /\ Live(heap) = members
  BY DEF AvlInv, TypeOK, Unspoilt
<1>2. ASSUME "removal" \notin heap.past, NEW n \in members
      PROVE  /\ heap.balance[n] = Height[heap.child[n][RIGHT]] - Height[heap.child[n][LEFT]]
             /\ heap.balance[n] \in -1 .. 1
  <2>1. PICK h : Heights(heap, h)
    BY <1>2 DEF Unspoilt
  <2>2. /\ heap.child[n][LEFT] \in Live(heap) \cup {Null}
        /\ heap.child[n][RIGHT] \in Live(heap) \cup {Null}
    BY <1>1, LiveIs DEF Dirs
  <2>3. /\ Height[heap.child[n][LEFT]] = h[heap.child[n][LEFT]]
        /\ Height[heap.child[n][RIGHT]] = h[heap.child[n][RIGHT]]
    BY <2>1, <2>2, HeightIs
  <2>4. Level(heap, h, n)
    BY <1>1, <2>1 DEF Heights
  <2> QED BY <2>3, <2>4 DEF Level
<1> QED BY <1>1, <1>2

(* For any number of nodes and any calls of avl_add and avl_del: until the *)
(* first rotation or swap no node is lost, and until the first removal     *)
(* each balance is the difference of the heights and at most 1.            *)
THEOREM AvlSoundUntilRepair == Spec => []SoundUntilRepair
<1>1. Init => AvlInv /\ Unspoilt
  BY AvlInvInit, UnspoiltInit DEF Init
<1>2. (AvlInv /\ Unspoilt) /\ [Next]_vars => (AvlInv /\ Unspoilt)'
  BY AvlInvNext, UnspoiltNext
<1>3. AvlInv /\ Unspoilt => SoundUntilRepair
  BY UnspoiltSound
<1> QED BY <1>1, <1>2, <1>3, PTL DEF Spec
=============================================================================
