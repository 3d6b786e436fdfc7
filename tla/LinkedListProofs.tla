-------------------------- MODULE LinkedListProofs --------------------------
(***************************************************************************)
(* Proofs about LinkedList, for any finite number of headers and nodes:    *)
(* the rings are consistent, ll_foreach is exact, ll_get counts modulo the *)
(* length of the ring, and the pointers implement Rings.  That a ring      *)
(* closes needs the finiteness of the set of nodes; that a list has one    *)
(* header needs to know, for each node, whose ring it is in, through every *)
(* splice.                                                                 *)
(***************************************************************************)
EXTENDS LinkedList, WellFoundedInduction, FiniteSetTheorems, SequenceTheorems, TLAPS

----------------------------------------------------------------------------
(* Natural numbers.                                                        *)

(* Every nonempty set of natural numbers has a least element.  A proof by  *)
(* induction takes the least counterexample.                               *)
LEMMA LeastNat ==
  ASSUME NEW S, S \subseteq Nat, S # {}
  PROVE  \E m \in S : \A n \in S : m <= n
<1>1. IsWellFoundedOn(OpToRel(<, Nat), Nat)
  BY NatLessThanWellFounded, Zenon
<1>2. PICK m \in S : \A n \in S : ~(<<n, m>> \in OpToRel(<, Nat))
  BY <1>1, WFMin, Zenon
<1>3. \A n \in S : ~(n < m)
  BY <1>2 DEF OpToRel
<1> QED BY <1>3

(* Min returns that element.                                               *)
LEMMA MinNat ==
  ASSUME NEW S, S \subseteq Nat, S # {}
  PROVE  Min(S) \in S /\ \A n \in S : Min(S) <= n
BY LeastNat DEF Min

(* A number is its quotient times the divisor and its remainder.           *)
LEMMA Division ==
  ASSUME NEW P \in Nat \ {0}, NEW x \in Nat
  PROVE  /\ x \div P \in Nat /\ x % P \in Nat /\ x % P < P
         /\ x = (x \div P) * P + (x % P)
  OBVIOUS

(* In one way only.                                                        *)
LEMMA DivisionUnique ==
  ASSUME NEW P \in Nat \ {0}, NEW x \in Nat, NEW q \in Nat, NEW r \in Nat, r < P, x = q * P + r
  PROVE  x \div P = q /\ x % P = r
  OBVIOUS

(* Counting modulo P.                                                      *)
LEMMA NextRemainder ==
  ASSUME NEW P \in Nat \ {0}, NEW x \in Nat
  PROVE  (x + 1) % P = IF x % P = P - 1 THEN 0 ELSE (x % P) + 1
<1> DEFINE q == x \div P
           r == x % P
<1>1. q \in Nat /\ r \in Nat /\ r < P /\ x = q * P + r
  BY Division
<1> HIDE DEF q, r
<1>2. CASE r = P - 1
  <2>1. q + 1 \in Nat /\ 0 \in Nat /\ 0 < P /\ x + 1 \in Nat /\ x + 1 = (q + 1) * P + 0
    BY <1>1, <1>2
  <2>2. (x + 1) % P = 0
    BY <2>1, DivisionUnique
  <2> QED BY <1>2, <2>2 DEF r
<1>3. CASE r # P - 1
  <2>1. r + 1 \in Nat /\ r + 1 < P /\ x + 1 \in Nat /\ x + 1 = q * P + (r + 1)
    BY <1>1, <1>3
  <2>2. (x + 1) % P = r + 1
    BY <1>1, <2>1, DivisionUnique
  <2> QED BY <1>3, <2>2 DEF r
<1> QED BY <1>2, <1>3

----------------------------------------------------------------------------
(* The inductive invariant.                                                *)

Live == Header \cup linked

(* prev undoes next, and no ring reaches a node that is not live.          *)
Undoes ==
    \A x \in Live : /\ next[x] \in Live /\ prev[x] \in Live
                    /\ prev[next[x]] = x /\ next[prev[x]] = x

(* The node that comes i-th in the loop, or its end.                       *)
At(i) == IF i <= Len(todo) THEN todo[i] ELSE list

Unseen == (Len(seen) + 1) .. Len(todo)

(* The nodes the loop has still to pass are chained as they were.          *)
Looping ==
    ~Idle =>
        /\ Len(seen) <= Len(todo)
        /\ \A i \in 1 .. Len(seen) : seen[i] = todo[i]
        /\ \A i, j \in 1 .. Len(todo) : todo[i] = todo[j] => i = j
        /\ cur = At(Len(seen) + 1)
        /\ \A i \in Unseen : todo[i] \in linked /\ next[todo[i]] = At(i + 1)

(* The header whose ring a node is in is known: own tells it, and None     *)
(* for a ring without one.  So no ring has two headers, the ring of front  *)
(* has none, and what the loop has still to pass is in the ring of list.   *)
Keeps(own) ==
    /\ \A x \in Live : own[next[x]] = own[x]
    /\ \A h \in Header : own[h] = h

Owned(own) ==
    /\ Keeps(own)
    /\ front # None => own[front] = None
    /\ ~Idle => \A i \in Unseen : own[todo[i]] = list

Owners == [All -> Header \cup {None}]

IInv == TypeOK /\ Undoes /\ Looping /\ \E own \in Owners : Owned(own)

----------------------------------------------------------------------------
(* Walks.                                                                  *)

Most == 2 * Cardinality(All)

(* A walk is long enough to go round every ring.                           *)
LEMMA MostType == Cardinality(All) \in Nat /\ Most \in Nat /\ Cardinality(All) <= Most
<1>1. Cardinality(All) \in Nat
  BY ListAssumption, FS_CardinalityType, Zenon
<1> QED BY <1>1 DEF Most

(* g is the walk of n steps from x.                                        *)
IsWalk(ptr, x, n, g) == g = [k \in 0 .. n |-> IF k = 0 THEN x ELSE ptr[g[k - 1]]]

(* There is a walk of every length: the least one without would extend the *)
(* one before it.                                                          *)
LEMMA WalkExists ==
  ASSUME NEW ptr, NEW x, NEW n \in Nat
  PROVE  \E g : IsWalk(ptr, x, n, g)
<1> DEFINE S == {m \in Nat : ~ \E g : IsWalk(ptr, x, m, g)}
<1>1. CASE S = {}
  BY <1>1
<1>2. CASE S # {}
  <2>1. PICK m \in S : \A k \in S : m <= k
    BY <1>2, LeastNat, Zenon
  <2>2. m # 0
    <3> DEFINE g == [k \in 0 .. 0 |-> x]
    <3>1. IsWalk(ptr, x, 0, g)
      BY DEF IsWalk
    <3> QED BY <2>1, <3>1
  <2>3. m \in Nat /\ m - 1 \in Nat /\ m - 1 \notin S
    BY <2>1, <2>2
  <2>4. PICK g : IsWalk(ptr, x, m - 1, g)
    BY <2>3
  <2> DEFINE f == [k \in 0 .. m |-> IF k = 0 THEN x ELSE ptr[g[k - 1]]]
  <2>5. \A k \in 0 .. (m - 1) : g[k] = IF k = 0 THEN x ELSE ptr[g[k - 1]]
    BY <2>3, <2>4 DEF IsWalk
  <2>6. \A k \in 0 .. (m - 1) : f[k] = g[k]
    <3>1. \A k \in 0 .. (m - 1) : k \in 0 .. m
      BY <2>3
    <3> QED BY <2>5, <3>1
  <2>7. \A k \in 0 .. m : f[k] = IF k = 0 THEN x ELSE ptr[f[k - 1]]
    <3>1. \A k \in 0 .. m : k # 0 => k - 1 \in 0 .. (m - 1)
      BY <2>3
    <3> QED BY <2>6, <3>1
  <2> HIDE DEF S
  <2>8. IsWalk(ptr, x, m, f)
    <3>1. DOMAIN f = 0 .. m
      OBVIOUS
    <3>2. f = [k \in 0 .. m |-> f[k]]
      BY <3>1
    <3> HIDE DEF f
    <3>3. [k \in 0 .. m |-> f[k]] = [k \in 0 .. m |-> IF k = 0 THEN x ELSE ptr[f[k - 1]]]
      BY <2>7
    <3> QED BY <3>2, <3>3 DEF IsWalk
  <2> QED BY <2>1, <2>8 DEF S
<1> QED BY <1>1, <1>2

(* So Walk is one: it starts at x and follows the pointers.                *)
LEMMA WalkSteps ==
  ASSUME NEW ptr, NEW x
  PROVE  /\ DOMAIN Walk(ptr, x) = 0 .. Most
         /\ Walk(ptr, x)[0] = x
         /\ \A k \in 0 .. Most : k # 0 => Walk(ptr, x)[k] = ptr[Walk(ptr, x)[k - 1]]
<1>1. \E g : g = [k \in 0 .. Most |-> IF k = 0 THEN x ELSE ptr[g[k - 1]]]
  <2>1. PICK g : IsWalk(ptr, x, Most, g)
    BY WalkExists, MostType, Zenon
  <2> QED BY <2>1 DEF IsWalk
<1>2. Walk(ptr, x) = [k \in 0 .. Most |-> IF k = 0 THEN x ELSE ptr[Walk(ptr, x)[k - 1]]]
  BY <1>1 DEF Walk, Most
<1> DEFINE W == Walk(ptr, x)
<1> HIDE DEF W
<1>3. W = [k \in 0 .. Most |-> IF k = 0 THEN x ELSE ptr[W[k - 1]]]
  BY <1>2 DEF W
<1>4. 0 \in 0 .. Most
  BY MostType
<1>5. DOMAIN W = 0 .. Most
  BY <1>3
<1>6. \A k \in 0 .. Most : W[k] = IF k = 0 THEN x ELSE ptr[W[k - 1]]
  BY <1>3
<1> QED BY <1>4, <1>5, <1>6 DEF W

(* A walk of next from a live node stays among the live ones, also the     *)
(* walk of prev.                                                           *)
LEMMA WalkLive ==
  ASSUME Undoes, NEW x \in Live, NEW ptr, ptr = next \/ ptr = prev, NEW k \in 0 .. Most
  PROVE  Walk(ptr, x)[k] \in Live
<1> DEFINE W == Walk(ptr, x)
           S == {m \in 0 .. Most : W[m] \notin Live}
<1>1. /\ W[0] = x
      /\ \A m \in 0 .. Most : m # 0 => W[m] = ptr[W[m - 1]]
  BY WalkSteps
<1>2. \A y \in Live : ptr[y] \in Live
  BY DEF Undoes
<1> HIDE DEF W
<1>3. CASE S = {}
  BY <1>3 DEF W
<1>4. CASE S # {}
  <2>1. PICK m \in S : \A j \in S : m <= j
    <3>1. S \subseteq Nat
      BY MostType
    <3> QED BY <1>4, <3>1, LeastNat, Zenon
  <2>2. m # 0
    BY <1>1, <2>1
  <2>3. m \in 0 .. Most /\ m - 1 \in 0 .. Most /\ ~(m <= m - 1)
    BY <2>1, <2>2, MostType
  <2>4. W[m - 1] \in Live
    BY <2>1, <2>3
  <2>5. W[m] \in Live
    BY <1>1, <1>2, <2>2, <2>3, <2>4
  <2> QED BY <2>1, <2>5
<1> QED BY <1>3, <1>4

(* Where a walk meets itself it has met its start.                         *)
LEMMA WalkBack ==
  ASSUME Undoes, NEW x \in Live, NEW i \in 0 .. Most, NEW j \in 0 .. Most, i <= j,
         Walk(next, x)[i] = Walk(next, x)[j]
  PROVE  Walk(next, x)[j - i] = x
<1> DEFINE W == Walk(next, x)
           S == {m \in 0 .. i : W[m] = W[m + (j - i)]}
<1>1. /\ W[0] = x
      /\ \A m \in 0 .. Most : m # 0 => W[m] = next[W[m - 1]]
      /\ \A m \in 0 .. Most : W[m] \in Live
  BY WalkSteps, WalkLive
<1>2. \A y \in Live : prev[next[y]] = y
  BY DEF Undoes
<1> HIDE DEF W
<1>3. Most \in Nat /\ i \in Nat /\ j \in Nat /\ j - i \in Nat /\ j <= Most /\ i + (j - i) = j
  BY MostType
<1>4. i \in S /\ S \subseteq Nat
  BY <1>3 DEF W
<1>5. PICK m \in S : \A n \in S : m <= n
  BY <1>4, LeastNat, Zenon
<1> DEFINE d == j - i
<1>6. m \in Nat /\ m <= i /\ d \in Nat /\ m + d <= Most /\ W[m] = W[m + d]
  BY <1>3, <1>5
<1>7. m = 0
  <2> SUFFICES ASSUME m # 0 PROVE FALSE
    OBVIOUS
  <2>1. /\ m \in 0 .. Most /\ m - 1 \in 0 .. Most /\ m + d \in 0 .. Most /\ m + d # 0
        /\ (m - 1) + d \in 0 .. Most /\ (m + d) - 1 = (m - 1) + d /\ m - 1 \in 0 .. i
        /\ ~(m <= m - 1)
    BY <1>3, <1>6
  <2> HIDE DEF d
  <2>2. W[m] = next[W[m - 1]] /\ W[m + d] = next[W[(m - 1) + d]]
    BY <1>1, <2>1
  <2>3. W[m - 1] \in Live /\ W[(m - 1) + d] \in Live
    BY <1>1, <2>1
  <2>4. W[m - 1] = W[(m - 1) + d]
    <3>1. prev[W[m]] = W[m - 1] /\ prev[W[m + d]] = W[(m - 1) + d]
      BY ONLY <1>2, <2>2, <2>3
    <3> QED BY ONLY <1>6, <3>1
  <2>5. m - 1 \in S
    <3>1. m - 1 \in 0 .. i /\ W[m - 1] = W[(m - 1) + (j - i)]
      BY ONLY <2>1, <2>4 DEF d
    <3> QED BY ONLY <3>1 DEF S
  <2> QED BY <1>5, <2>1, <2>5
<1>8. 0 + d = d
  BY <1>6
<1> QED BY <1>1, <1>6, <1>7, <1>8 DEF W

(* A walk of next returns to its start, since there are only so many nodes *)
(* and two of the places it passes are the same.                           *)
LEMMA WalkReturns ==
  ASSUME TypeOK, Undoes, NEW x \in Live
  PROVE  \E n \in 1 .. Cardinality(All) : Walk(next, x)[n] = x
<1> DEFINE C == Cardinality(All)
           W == Walk(next, x)
           f == [k \in 0 .. C |-> W[k]]
<1>1. C \in Nat /\ C <= Most /\ Most \in Nat
  BY MostType
<1> HIDE DEF C
<1>2. \A k \in 0 .. C : k \in 0 .. Most /\ W[k] \in All
  <2>1. Live \subseteq All
    BY DEF TypeOK, Live, All
  <2>2. \A k \in 0 .. C : k \in 0 .. Most
    BY <1>1
  <2> QED BY <2>1, <2>2, WalkLive
<1> HIDE DEF W
<1>3. f \in [0 .. C -> All]
  BY <1>2
<1>4. IsFiniteSet(0 .. C) /\ Cardinality(0 .. C) = C + 1
  <2>1. 0 \in Int /\ C \in Int /\ ~(0 > C) /\ C - 0 + 1 = C + 1
    BY <1>1
  <2>2. /\ IsFiniteSet(0 .. C) 
        /\ Cardinality(0 .. C) = IF 0 > C THEN 0 ELSE C - 0 + 1
    BY <2>1, FS_Interval, Zenon
  <2> QED BY <2>1, <2>2
<1>5. Cardinality(All) < Cardinality(0 .. C) /\ IsFiniteSet(All)
  BY <1>1, <1>4, ListAssumption DEF C
<1>6. PICK p, q \in 0 .. C : p # q /\ f[p] = f[q]
  <2> HIDE DEF f
  <2> QED BY <1>3, <1>4, <1>5, FS_PigeonHole, Zenon
<1>7. ASSUME NEW i \in 0 .. C, NEW j \in 0 .. C, i < j, W[i] = W[j]
      PROVE  \E n \in 1 .. C : W[n] = x
  <2>1. i \in 0 .. Most /\ j \in 0 .. Most /\ i <= j /\ j - i \in 1 .. C
    BY <1>1, <1>7
  <2>2. W[j - i] = x
    BY <1>7, <2>1, WalkBack DEF W
  <2> QED BY <2>1, <2>2
<1>8. W[p] = W[q] /\ (p < q \/ q < p)
  BY <1>1, <1>6
<1> QED BY <1>7, <1>8 DEF W, C

(* What a ring is, read from x on: each of its nodes once, each the next   *)
(* of the one before, and x the next of the last.                          *)
Cyclic(ptr, S, r, x) ==
    /\ r \in Seq(S) /\ Len(r) \in Nat \ {0} /\ r[1] = x
    /\ \A p \in 1 .. Len(r) : ptr[r[p]] = IF p = Len(r) THEN x ELSE r[p + 1]
    /\ \A p, q \in 1 .. Len(r) : r[p] = r[q] => p = q

(* The rings are of that form.                                             *)
LEMMA RingShape ==
  ASSUME TypeOK, Undoes, NEW x \in Live
  PROVE  Cyclic(next, Live, Ring(x), x) /\ Len(Ring(x)) <= Cardinality(All)
<1> DEFINE C == Cardinality(All)
           W == Walk(next, x)
           ends == {k \in DOMAIN W : k > 0 /\ W[k] = x}
           n == Min(ends)
<1>1. C \in Nat /\ C <= Most /\ Most \in Nat
  BY MostType
<1>2. PICK e \in 1 .. C : W[e] = x
  BY WalkReturns
<1>3. /\ DOMAIN W = 0 .. Most /\ W[0] = x
      /\ \A m \in 0 .. Most : m # 0 => W[m] = next[W[m - 1]]
      /\ \A m \in 0 .. Most : W[m] \in Live
  BY WalkSteps, WalkLive
<1>4. ends \subseteq Nat /\ e \in ends /\ ends # {}
  BY <1>1, <1>2, <1>3
<1>5. n \in ends /\ \A k \in ends : n <= k
  BY <1>4, MinNat, Zenon
<1>6. n \in 1 .. C /\ W[n] = x
  <2>1. n \in Nat /\ n > 0 /\ W[n] = x
    BY <1>3, <1>5
  <2>2. n <= e
    BY <1>4, <1>5
  <2> HIDE DEF n
  <2> QED BY <1>1, <1>2, <2>1, <2>2
<1> DEFINE r == [p \in 1 .. n |-> W[p - 1]]
<1>7. Ring(x) = r
  <2>1. ends # {}
    BY <1>4
  <2> QED BY <2>1, Zenon DEF Ring
<1> HIDE DEF C, W, n, ends
<1>8. \A p \in 1 .. n : p \in 0 .. Most /\ p - 1 \in 0 .. Most /\ p # 0 /\ p - 1 \in Nat
  BY <1>1, <1>6
<1>9. r \in Seq(Live) /\ Len(r) = n /\ DOMAIN r = 1 .. n
  <2>1. n \in Nat
    BY <1>1, <1>6
  <2>2. \A p \in 1 .. n : W[p - 1] \in Live
    BY <1>3, <1>8
  <2> QED BY <2>1, <2>2
<1>10. r[1] = x /\ n \in Nat \ {0}
  <2>1. 1 \in 1 .. n /\ 1 - 1 = 0 /\ n \in Nat \ {0}
    BY <1>1, <1>6
  <2>2. r[1] = W[0]
    BY <2>1
  <2> QED BY <1>3, <2>1, <2>2
<1>11. ASSUME NEW p \in 1 .. n PROVE next[r[p]] = IF p = n THEN x ELSE r[p + 1]
  <2>1. r[p] = W[p - 1] /\ W[p] = next[W[p - 1]]
    BY <1>3, <1>8
  <2>2. p # n => p + 1 \in 1 .. n /\ (p + 1) - 1 = p
    BY <1>1, <1>6
  <2>3. p # n => r[p + 1] = W[p]
    BY <2>2
  <2> HIDE DEF r
  <2> QED BY <1>6, <2>1, <2>3
<1>12. ASSUME NEW p \in 1 .. n, NEW q \in 1 .. n, p < q, r[p] = r[q] PROVE FALSE
  <2> DEFINE i == p - 1
             j == q - 1
  <2>1. W[i] = W[j]
    BY <1>12
  <2>2. i \in 0 .. Most /\ j \in 0 .. Most /\ i <= j
    BY <1>1, <1>6, <1>8, <1>12
  <2>3. W[j - i] = x
    BY <2>1, <2>2, WalkBack DEF W
  <2>4. j - i \in 0 .. Most /\ j - i > 0 /\ j - i < n
    BY <1>1, <1>6, <1>12
  <2> HIDE DEF i, j
  <2>5. j - i \in ends
    BY <1>3, <2>3, <2>4 DEF ends
  <2>6. n <= j - i
    BY <1>5, <2>5
  <2>7. j - i \in Int /\ n \in Int
    BY <1>6, <2>4
  <2> QED BY <2>4, <2>6, <2>7
<1>13. \A p, q \in 1 .. n : r[p] = r[q] => p = q
  <2> HIDE DEF r
  <2>1. \A p, q \in 1 .. n : p = q \/ p < q \/ q < p
    BY <1>6
  <2> QED BY <1>12, <2>1
<1> HIDE DEF r
<1>14. Len(r) <= C
  BY <1>1, <1>6, <1>9
<1> QED BY <1>7, <1>9, <1>10, <1>11, <1>13, <1>14 DEF Cyclic, C

(* The members of a ring: both pointers of one lead to another.            *)
LEMMA MembersClosed ==
  ASSUME TypeOK, Undoes, NEW x \in Live
  PROVE  /\ x \in Members(x) /\ Members(x) \subseteq Live
         /\ \A y \in Members(x) : next[y] \in Members(x) /\ prev[y] \in Members(x)
<1> DEFINE r == Ring(x)
           n == Len(r)
<1>1. Cyclic(next, Live, r, x)
  BY RingShape
<1>2. Members(x) = {r[p] : p \in 1 .. n}
  <2>1. DOMAIN r = 1 .. n
    BY <1>1 DEF Cyclic
  <2> QED BY <2>1 DEF Members, Range
<1> HIDE DEF r
<1>3. /\ n \in Nat \ {0} /\ r[1] = x /\ \A p \in 1 .. n : r[p] \in Live
      /\ \A p \in 1 .. n : next[r[p]] = IF p = n THEN x ELSE r[p + 1]
  BY <1>1 DEF Cyclic
<1>4. \A y \in Live : prev[next[y]] = y
  BY DEF Undoes
<1> HIDE DEF n
<1>5. 1 \in 1 .. n /\ n \in 1 .. n /\ \A p \in 1 .. n : p # n => p + 1 \in 1 .. n
  BY <1>3
<1>6. x \in Members(x) /\ Members(x) \subseteq Live
  BY <1>2, <1>3, <1>5
<1>7. ASSUME NEW p \in 1 .. n PROVE next[r[p]] \in Members(x)
  BY <1>2, <1>3, <1>5
<1>8. ASSUME NEW p \in 1 .. n PROVE prev[r[p]] \in Members(x)
  <2>1. CASE p = 1
    <3>1. next[r[n]] = x /\ r[n] \in Live
      BY <1>3, <1>5
    <3>2. prev[x] = r[n]
      BY <1>4, <3>1
    <3> QED BY <1>2, <1>3, <1>5, <2>1, <3>2
  <2>2. CASE p # 1
    <3> DEFINE q == p - 1
    <3>1. q \in 1 .. n /\ q # n /\ q + 1 = p
      BY <1>3, <2>2
    <3> HIDE DEF q
    <3>2. next[r[q]] = r[p] /\ r[q] \in Live
      BY <1>3, <3>1
    <3>3. prev[r[p]] = r[q]
      BY <1>4, <3>2
    <3> QED BY <1>2, <3>1, <3>3
  <2> QED BY <2>1, <2>2
<1> QED BY <1>2, <1>6, <1>7, <1>8

----------------------------------------------------------------------------
(* The steps outside ll_foreach.                                           *)

(* All nodes of a ring have the owner of one of them.                      *)
LEMMA OwnerOfRing ==
  ASSUME TypeOK, Undoes, NEW own, Keeps(own), NEW x \in Live, NEW y \in Members(x)
  PROVE  own[y] = own[x]
<1> DEFINE r == Ring(x)
           n == Len(r)
           S == {p \in 1 .. n : own[r[p]] # own[x]}
<1>1. Cyclic(next, Live, r, x)
  BY RingShape
<1>2. Members(x) = {r[p] : p \in 1 .. n}
  <2>1. DOMAIN r = 1 .. n
    BY <1>1 DEF Cyclic
  <2> QED BY <2>1 DEF Members, Range
<1> HIDE DEF r
<1>3. /\ n \in Nat \ {0} /\ r[1] = x /\ \A p \in 1 .. n : r[p] \in Live
      /\ \A p \in 1 .. n : next[r[p]] = IF p = n THEN x ELSE r[p + 1]
  BY <1>1 DEF Cyclic
<1> HIDE DEF n
<1>4. CASE S = {}
  BY <1>2, <1>4
<1>5. CASE S # {}
  <2>1. PICK m \in S : \A j \in S : m <= j
    <3>1. S \subseteq Nat
      BY <1>3
    <3> QED BY <1>5, <3>1, LeastNat, Zenon
  <2>2. m # 1
    BY <1>3, <2>1
  <2> DEFINE q == m - 1
  <2>3. m \in 1 .. n /\ q \in 1 .. n /\ q # n /\ q + 1 = m /\ ~(m <= q)
    BY <1>3, <2>1, <2>2
  <2> HIDE DEF q
  <2>4. own[r[q]] = own[x]
    BY <2>1, <2>3
  <2>5. next[r[q]] = r[m] /\ r[q] \in Live
    BY <1>3, <2>3
  <2>6. own[r[m]] = own[r[q]]
    BY <2>5 DEF Keeps
  <2> QED BY <2>1, <2>4, <2>6
<1> QED BY <1>4, <1>5

(* A set of nodes is given an owner.                                       *)
LEMMA Recolour ==
  ASSUME NEW own \in Owners, NEW M, NEW c \in Header \cup {None}
  PROVE  \E o \in Owners : \A x \in All : o[x] = IF x \in M THEN c ELSE own[x]
<1> DEFINE o == [x \in All |-> IF x \in M THEN c ELSE own[x]]
<1>1. o \in Owners
  BY DEF Owners
<1>2. \A x \in All : o[x] = IF x \in M THEN c ELSE own[x]
  OBVIOUS
<1> QED BY <1>1, <1>2

(* What a step outside ll_foreach has to keep.                             *)
LEMMA IdleStep ==
  ASSUME IInv, Idle, UNCHANGED loop,
         next' \in [All -> All \cup {None}], prev' \in [All -> All \cup {None}],
         linked' \subseteq Node, front' \in linked' \cup {None}, Undoes',
         NEW o \in Owners, Keeps(o)', front' # None => o[front'] = None
  PROVE  IInv'
<1>1. list' = None /\ list' = list /\ cur' = cur /\ seen' = seen /\ todo' = todo
  BY DEF Idle, loop
<1>2. TypeOK'
  BY <1>1 DEF IInv, TypeOK
<1>3. Looping'
  BY <1>1 DEF Looping, Idle
<1>4. Owned(o)'
  BY <1>1 DEF Owned, Idle
<1> QED BY <1>2, <1>3, <1>4 DEF IInv

(* Headers and nodes are apart, and neither is None.                       *)
LEMMA LiveNodes ==
  ASSUME TypeOK
  PROVE  /\ Live \subseteq All /\ linked \subseteq Live /\ Header \subseteq Live
         /\ linked \cap Header = {} /\ Header \subseteq All /\ Node \subseteq All
         /\ None \notin All /\ None \notin Header /\ Header \cap Node = {}
BY ListAssumption DEF TypeOK, Live, All

(* ll_init.                                                                *)
LEMMA StepInitNode ==
  ASSUME IInv, NEW n \in Node, InitNode(n)
  PROVE  IInv'
<1>1. /\ Idle /\ n \notin linked /\ linked' = linked \cup {n} /\ front' = front /\ UNCHANGED loop
      /\ next' = [next EXCEPT ![n] = n] /\ prev' = [prev EXCEPT ![n] = n]
  BY DEF InitNode
<1>2. TypeOK /\ Undoes
  BY DEF IInv
<1>3. PICK own \in Owners : Owned(own)
  BY DEF IInv
<1>4. PICK o \in Owners : \A x \in All : o[x] = IF x \in {n} THEN None ELSE own[x]
  BY <1>3, Recolour
<1>5. /\ n \in All /\ n \notin Live /\ Live' = Live \cup {n}
      /\ next' \in [All -> All \cup {None}] /\ prev' \in [All -> All \cup {None}]
      /\ next'[n] = n /\ prev'[n] = n
      /\ \A x \in All : x # n => next'[x] = next[x] /\ prev'[x] = prev[x]
  BY <1>1, <1>2, LiveNodes DEF TypeOK, Live
<1>6. Undoes'
  BY <1>2, <1>5, LiveNodes DEF Undoes
<1>7. Keeps(o)'
  <2>1. \A x \in Live : next[x] \in Live /\ next'[x] = next[x] /\ own[next[x]] = own[x]
    BY <1>2, <1>3, <1>5, LiveNodes DEF Undoes, Owned, Keeps
  <2>2. \A x \in Live : o[x] = own[x]
    BY <1>2, <1>4, <1>5, LiveNodes
  <2>3. \A h \in Header : own[h] = h /\ h \in Live
    BY <1>2, <1>3, LiveNodes DEF Owned, Keeps
  <2> QED BY <1>5, <2>1, <2>2, <2>3 DEF Keeps
<1>8. front' # None => o[front'] = None
  BY <1>1, <1>2, <1>3, <1>4, LiveNodes DEF TypeOK, Owned
<1>9. linked' \subseteq Node /\ front' \in linked' \cup {None}
  BY <1>1, <1>2 DEF TypeOK
<1> QED BY <1>1, <1>5, <1>6, <1>7, <1>8, <1>9, IdleStep

(* The client enters a list that has no header.                            *)
LEMMA StepEnter ==
  ASSUME IInv, NEW n \in Node, Enter(n)
  PROVE  IInv'
<1> DEFINE M == Members(n)
<1>1. /\ Idle /\ n \in linked /\ M \cap Header = {} /\ front' = n /\ UNCHANGED loop
      /\ next' = next /\ prev' = prev /\ linked' = linked
  BY DEF Enter
<1>2. TypeOK /\ Undoes /\ n \in Live /\ n \in All
  BY <1>1, LiveNodes DEF IInv
<1>3. PICK own \in Owners : Owned(own)
  BY DEF IInv
<1>4. PICK o \in Owners : \A x \in All : o[x] = IF x \in M THEN None ELSE own[x]
  BY <1>3, Recolour
<1>5. n \in M /\ M \subseteq Live /\ \A y \in M : next[y] \in M /\ prev[y] \in M
  BY <1>2, MembersClosed
<1> HIDE DEF M
<1>6. Keeps(o)
  <2>1. \A x \in Live : /\ next[x] \in Live /\ prev[next[x]] = x /\ own[next[x]] = own[x]
                        /\ x \in All /\ next[x] \in All
    BY <1>2, <1>3, LiveNodes DEF Undoes, Owned, Keeps
  <2>2. \A x \in Live : x \in M <=> next[x] \in M
    BY <1>5, <2>1
  <2>3. \A h \in Header : own[h] = h /\ h \in All /\ h \notin M
    BY <1>1, <1>2, <1>3, LiveNodes DEF Owned, Keeps
  <2>4. \A x \in Live : o[next[x]] = o[x]
    BY <1>4, <2>1, <2>2
  <2> QED BY <1>4, <2>3, <2>4 DEF Keeps
<1>7. Keeps(o)' /\ Undoes'
  BY <1>1, <1>2, <1>6 DEF Keeps, Undoes, Live
<1>8. o[front'] = None
  BY <1>1, <1>2, <1>4, <1>5
<1>9. /\ next' \in [All -> All \cup {None}] /\ prev' \in [All -> All \cup {None}]
      /\ linked' \subseteq Node /\ front' \in linked' \cup {None}
  BY <1>1, <1>2 DEF TypeOK
<1> QED BY <1>1, <1>7, <1>8, <1>9, IdleStep

(* ll_emplace_back.                                                        *)
LEMMA StepEmplaceBack ==
  ASSUME IInv, NEW dst \in All, NEW n \in Node, EmplaceBack(dst, n)
  PROVE  IInv'
<1> DEFINE p == prev[dst]
<1>1. /\ Idle /\ n \notin linked /\ dst \in Live /\ UNCHANGED loop
      /\ next' = [next EXCEPT ![p] = n, ![n] = dst]
      /\ prev' = [prev EXCEPT ![n] = p, ![dst] = n]
      /\ linked' = linked \cup {n} /\ front' = front
  BY DEF EmplaceBack, Live
<1>2. TypeOK /\ Undoes /\ n \notin Live /\ n \in All
  BY <1>1, LiveNodes DEF IInv, Live
<1>3. PICK own \in Owners : Owned(own)
  BY DEF IInv
<1>4. PICK o \in Owners : \A x \in All : o[x] = IF x \in {n} THEN own[dst] ELSE own[x]
  <2>1. own[dst] \in Header \cup {None}
    BY <1>3 DEF Owners
  <2>2. PICK M : M = {n}
    OBVIOUS
  <2>3. \E o \in Owners : \A x \in All : o[x] = IF x \in M THEN own[dst] ELSE own[x]
    BY <2>1, Recolour
  <2> QED BY <2>2, <2>3
<1>5. p \in Live /\ p # n /\ dst # n /\ p \in All /\ next[p] = dst /\ Live \subseteq All
  BY <1>1, <1>2, LiveNodes DEF Undoes
<1> HIDE DEF p
<1>6. /\ next' \in [All -> All \cup {None}] /\ prev' \in [All -> All \cup {None}]
      /\ next'[p] = n /\ next'[n] = dst /\ prev'[n] = p /\ prev'[dst] = n
      /\ \A x \in All : x # p /\ x # n => next'[x] = next[x]
      /\ \A x \in All : x # dst /\ x # n => prev'[x] = prev[x]
  BY <1>1, <1>2, <1>5 DEF TypeOK
<1>7. Live' = Live \cup {n}
  BY <1>1 DEF Live
<1>8. Undoes'
  <2>1. p = prev[dst]
    BY DEF p
  <2>2. ASSUME NEW x \in Live, x # p
        PROVE  next'[x] = next[x] /\ next[x] # dst /\ next[x] # n /\ prev'[next'[x]] = x
               /\ next'[x] \in Live
    <3>1. /\ next[x] \in Live /\ prev[next[x]] = x
      BY <1>2 DEF Undoes
    <3>2. next[x] # dst /\ next[x] # n /\ x # n
      BY <1>2, <2>1, <2>2, <3>1
    <3> QED BY <1>5, <1>6, <2>2, <3>1, <3>2
  <2>3. ASSUME NEW x \in Live, x # dst
        PROVE  prev'[x] = prev[x] /\ prev[x] # p /\ prev[x] # n /\ next'[prev'[x]] = x
               /\ prev'[x] \in Live
    <3>1. /\ prev[x] \in Live /\ next[prev[x]] = x
      BY <1>2 DEF Undoes
    <3>2. prev[x] # p /\ prev[x] # n /\ x # n
      BY <1>2, <1>5, <2>3, <3>1
    <3> QED BY <1>5, <1>6, <2>3, <3>1, <3>2
  <2> QED BY <1>1, <1>5, <1>6, <1>7, <2>2, <2>3 DEF Undoes
<1>9. Keeps(o)'
  <2>1. \A x \in Live : o[x] = own[x] /\ next[x] \in Live /\ own[next[x]] = own[x]
    BY <1>2, <1>3, <1>4, <1>5 DEF Undoes, Owned, Keeps
  <2>2. o[n] = o[dst] /\ o[p] = o[dst]
    BY <1>1, <1>2, <1>4, <1>5, <2>1
  <2>3. \A x \in Live : o[next'[x]] = o[x]
    BY <1>2, <1>5, <1>6, <2>1, <2>2
  <2>4. \A h \in Header : o[h] = h
    BY <1>2, <1>3, <2>1, LiveNodes DEF Owned, Keeps
  <2> QED BY <1>6, <1>7, <2>2, <2>3, <2>4 DEF Keeps
<1>10. front' # None => o[front'] = None
  BY <1>1, <1>2, <1>3, <1>4, LiveNodes DEF TypeOK, Owned
<1>11. linked' \subseteq Node /\ front' \in linked' \cup {None}
  BY <1>1, <1>2 DEF TypeOK
<1> QED BY <1>1, <1>6, <1>8, <1>9, <1>10, <1>11, IdleStep

(* The ring of src is cut open before src and put before dst.              *)
Spliced(dst, src) ==
    /\ next' \in [All -> All \cup {None}] /\ prev' \in [All -> All \cup {None}]
    /\ linked' = linked
    /\ \A x \in All : next'[x] = IF x = prev[dst] THEN src
                                 ELSE IF x = prev[src] THEN dst ELSE next[x]
    /\ \A x \in All : prev'[x] = IF x = src THEN prev[dst]
                                 ELSE IF x = dst THEN prev[src] ELSE prev[x]

(* The members of a ring that may be spliced.                              *)
LEMMA ApartRings ==
  ASSUME TypeOK, Undoes, NEW dst \in Live, NEW src \in linked, Apart(dst, src)
  PROVE  /\ src \in Live /\ src \in Members(src) /\ dst \notin Members(src)
         /\ prev[src] \in Members(src) /\ prev[dst] \notin Members(src)
         /\ prev[src] # prev[dst] /\ src # dst
         /\ Members(src) \subseteq Live /\ Members(src) \cap Header = {}
         /\ \A y \in Members(src) : next[y] \in Members(src) /\ prev[y] \in Members(src)
<1> DEFINE M == Members(src)
<1>1. src \in Live
  BY LiveNodes
<1>2. src \in M /\ M \subseteq Live /\ \A y \in M : next[y] \in M /\ prev[y] \in M
  BY <1>1, MembersClosed
<1>3. dst \in Members(dst)
  BY MembersClosed
<1>4. dst \notin M /\ M \cap Header = {}
  BY <1>3 DEF Apart
<1>5. next[prev[dst]] = dst
  BY DEF Undoes
<1> HIDE DEF M
<1>6. prev[dst] \notin M
  BY <1>2, <1>4, <1>5
<1> QED BY <1>1, <1>2, <1>4, <1>6 DEF M

(* A splice leaves prev the inverse of next.                               *)
LEMMA SpliceUndoes ==
  ASSUME TypeOK, Undoes, NEW dst \in Live, NEW src \in linked, Apart(dst, src),
         Spliced(dst, src)
  PROVE  Undoes'
<1> DEFINE p == prev[dst]
           q == prev[src]
<1>1. p # q /\ src # dst /\ src \in Live /\ Live \subseteq All
  BY ApartRings, LiveNodes
<1>2. p \in Live /\ q \in Live /\ next[p] = dst /\ next[q] = src
  BY <1>1 DEF Undoes
<1>3. Live' = Live
  BY DEF Spliced, Live
<1>4. /\ next'[p] = src /\ next'[q] = dst /\ prev'[src] = p /\ prev'[dst] = q
      /\ \A x \in Live : x # p /\ x # q => next'[x] = next[x]
      /\ \A x \in Live : x # src /\ x # dst => prev'[x] = prev[x]
  BY <1>1, <1>2 DEF Spliced
<1>5. p = prev[dst] /\ q = prev[src]
  OBVIOUS
<1> HIDE DEF p, q
<1>6. \A x \in Live : /\ next[x] \in Live /\ prev[x] \in Live
                      /\ prev[next[x]] = x /\ next[prev[x]] = x
  BY DEF Undoes
<1>7. \A x \in Live : next'[x] \in Live /\ prev'[next'[x]] = x
  BY <1>1, <1>2, <1>4, <1>5, <1>6
<1>8. \A x \in Live : prev'[x] \in Live /\ next'[prev'[x]] = x
  BY <1>1, <1>2, <1>4, <1>5, <1>6
<1> QED BY <1>3, <1>7, <1>8 DEF Undoes

(* The nodes of the ring of src get the owner of dst.                      *)
LEMMA SpliceKeeps ==
  ASSUME TypeOK, Undoes, NEW dst \in Live, NEW src \in linked, Apart(dst, src),
         Spliced(dst, src), NEW own \in Owners, Keeps(own)
  PROVE  \E o \in Owners : /\ Keeps(o)'
                           /\ \A x \in All : o[x] = IF x \in Members(src) THEN own[dst] ELSE own[x]
<1> DEFINE p == prev[dst]
           q == prev[src]
           M == Members(src)
<1>1. /\ p # q /\ src # dst /\ src \in Live /\ Live \subseteq All /\ M \subseteq Live
      /\ src \in M /\ q \in M /\ dst \notin M /\ p \notin M /\ M \cap Header = {}
      /\ Header \subseteq Live
      /\ \A y \in M : next[y] \in M /\ prev[y] \in M
  BY ApartRings, LiveNodes
<1>2. p \in Live /\ q \in Live /\ next[p] = dst
  BY <1>1 DEF Undoes
<1>3. own[dst] \in Header \cup {None}
  BY <1>1 DEF Owners
<1>4. PICK o \in Owners : \A x \in All : o[x] = IF x \in M THEN own[dst] ELSE own[x]
  BY <1>3, Recolour
<1>5. Live' = Live
  BY DEF Spliced, Live
<1>6. /\ next'[p] = src /\ next'[q] = dst
      /\ \A x \in Live : x # p /\ x # q => next'[x] = next[x]
  BY <1>1, <1>2 DEF Spliced
<1> HIDE DEF p, q, M
<1>7. \A x \in Live : next[x] \in Live /\ prev[next[x]] = x /\ own[next[x]] = own[x]
  BY DEF Undoes, Keeps
<1>8. o[src] = own[dst] /\ o[q] = own[dst] /\ o[dst] = own[dst] /\ o[p] = own[dst]
  BY <1>1, <1>2, <1>4, <1>7
<1>9. \A x \in Live : o[next[x]] = o[x] \/ x = p \/ x = q
  <2>1. \A x \in Live : x \in M <=> next[x] \in M
    BY <1>1, <1>7
  <2> QED BY <1>1, <1>4, <1>7, <2>1
<1>10. \A x \in Live : o[next'[x]] = o[x]
  BY <1>6, <1>8, <1>9
<1>11. \A h \in Header : o[h] = h
  BY <1>1, <1>4 DEF Keeps
<1>12. Keeps(o)'
  BY <1>5, <1>10, <1>11 DEF Keeps
<1> QED BY <1>4, <1>12 DEF M

(* ll_push_back and ll_push_front splice.                                  *)
LEMMA BackSplices ==
  ASSUME TypeOK, Undoes, NEW dst \in All, NEW src \in Node, PushBack(dst, src)
  PROVE  Spliced(dst, src)
<1> DEFINE p == prev[dst]
           q == prev[src]
<1>1. dst \in Live /\ src \in linked /\ Apart(dst, src) /\ linked' = linked
  BY DEF PushBack, Live
<1>2. p # q /\ src # dst /\ p \in All /\ q \in All /\ src \in All
  BY <1>1, ApartRings, LiveNodes DEF Undoes
<1>3. /\ next' = [next EXCEPT ![p] = src, ![q] = dst]
      /\ prev' = [prev EXCEPT ![src] = p, ![dst] = q]
  BY DEF PushBack
<1>4. p = prev[dst] /\ q = prev[src]
  OBVIOUS
<1> HIDE DEF p, q
<1> QED BY <1>1, <1>2, <1>3, <1>4 DEF Spliced, TypeOK

(* The same pointers, in the other order.                                  *)
LEMMA FrontSplices ==
  ASSUME TypeOK, Undoes, NEW src \in Node, PushFront(src)
  PROVE  Spliced(front, src)
<1> DEFINE p == prev[front]
           q == prev[src]
<1>1. /\ front # None /\ front \in Live /\ src \in linked /\ Apart(front, src)
      /\ linked' = linked
  BY LiveNodes DEF PushFront, TypeOK
<1>2. p # q /\ src # front /\ p \in All /\ q \in All /\ src \in All /\ front \in All
  BY <1>1, ApartRings, LiveNodes DEF Undoes
<1>3. /\ next' = [next EXCEPT ![q] = front, ![p] = src]
      /\ prev' = [prev EXCEPT ![src] = p, ![front] = q]
  BY DEF PushFront
<1>4. p = prev[front] /\ q = prev[src]
  OBVIOUS
<1> HIDE DEF p, q
<1> QED BY <1>1, <1>2, <1>3, <1>4 DEF Spliced, TypeOK

(* ll_push_back.                                                           *)
LEMMA StepPushBack ==
  ASSUME IInv, NEW dst \in All, NEW src \in Node, PushBack(dst, src)
  PROVE  IInv'
<1>1. /\ Idle /\ dst \in Live /\ src \in linked /\ Apart(dst, src) /\ UNCHANGED loop
      /\ front # None => front \notin Members(src)
      /\ linked' = linked /\ front' = front
  BY DEF PushBack, Live
<1>2. TypeOK /\ Undoes
  BY DEF IInv
<1>3. PICK own \in Owners : Owned(own)
  BY DEF IInv
<1>4. Spliced(dst, src)
  BY <1>2, BackSplices
<1>5. Undoes'
  BY <1>1, <1>2, <1>4, SpliceUndoes
<1>6. PICK o \in Owners : /\ Keeps(o)'
                          /\ \A x \in All : o[x] = IF x \in Members(src) THEN own[dst] ELSE own[x]
  BY <1>1, <1>2, <1>3, <1>4, SpliceKeeps DEF Owned
<1>7. front' # None => o[front'] = None
  BY <1>1, <1>2, <1>3, <1>6, LiveNodes DEF TypeOK, Owned
<1>8. linked' \subseteq Node /\ front' \in linked' \cup {None}
  BY <1>1, <1>2 DEF TypeOK
<1>9. next' \in [All -> All \cup {None}] /\ prev' \in [All -> All \cup {None}]
  BY <1>4 DEF Spliced
<1> QED BY <1>1, <1>5, <1>6, <1>7, <1>8, <1>9, IdleStep

(* ll_push_front.                                                          *)
LEMMA StepPushFront ==
  ASSUME IInv, NEW src \in Node, PushFront(src)
  PROVE  IInv'
<1>1. /\ Idle /\ front # None /\ src \in linked /\ Apart(front, src) /\ UNCHANGED loop
      /\ linked' = linked /\ front' = src
  BY DEF PushFront
<1>2. TypeOK /\ Undoes /\ front \in Live
  BY <1>1, LiveNodes DEF IInv, TypeOK
<1>3. PICK own \in Owners : Owned(own)
  BY DEF IInv
<1>4. Spliced(front, src)
  BY <1>2, FrontSplices
<1>5. Undoes'
  BY <1>1, <1>2, <1>4, SpliceUndoes
<1>6. PICK o \in Owners : /\ Keeps(o)'
                          /\ \A x \in All : o[x] = IF x \in Members(src) THEN own[front] ELSE own[x]
  BY <1>1, <1>2, <1>3, <1>4, SpliceKeeps DEF Owned
<1>7. o[front'] = None
  <2>1. src \in Members(src) /\ src \in All
    BY <1>1, <1>2, ApartRings, LiveNodes
  <2> QED BY <1>1, <1>3, <1>6, <2>1 DEF Owned
<1>8. linked' \subseteq Node /\ front' \in linked' \cup {None}
  BY <1>1, <1>2 DEF TypeOK
<1>9. next' \in [All -> All \cup {None}] /\ prev' \in [All -> All \cup {None}]
  BY <1>4 DEF Spliced
<1> QED BY <1>1, <1>5, <1>6, <1>7, <1>8, <1>9, IdleStep

(* ll_remove takes a node out and leaves the others in their rings.        *)
LEMMA UnlinkKeeps ==
  ASSUME TypeOK, Undoes, NEW n \in linked, Unlink(n), NEW own, Keeps(own)
  PROVE  /\ next' \in [All -> All \cup {None}] /\ prev' \in [All -> All \cup {None}]
         /\ linked' \subseteq linked /\ linked \ {n} \subseteq linked'
         /\ next[n] = n => linked' = linked
         /\ next'[n] = next[n] /\ \A x \in Live : x # prev[n] => next'[x] = next[x]
         /\ Undoes' /\ Keeps(own)'
<1>1. n \in Live /\ n \in All /\ Live \subseteq All /\ Header \subseteq Live /\ n \notin Header
  BY LiveNodes
<1>2. CASE next[n] = n
  <2>1. next' = next /\ prev' = prev /\ linked' = linked
    BY <1>2 DEF Unlink
  <2>2. Undoes' /\ Keeps(own)'
    BY <2>1 DEF Undoes, Keeps, Live
  <2> QED BY <2>1, <2>2 DEF TypeOK
<1>3. CASE next[n] # n
  <2> DEFINE p == prev[n]
             s == next[n]
  <2>1. p \in Live /\ s \in Live /\ next[p] = n /\ prev[s] = n /\ p \in All /\ s \in All
    BY <1>1 DEF Undoes
  <2>2. p # n /\ s # n
    BY <1>3, <2>1
  <2>3. /\ next' = [next EXCEPT ![p] = s] /\ prev' = [prev EXCEPT ![s] = p]
        /\ linked' = linked \ {n}
    BY <1>3 DEF Unlink
  <2>4. p = prev[n] /\ s = next[n]
    OBVIOUS
  <2> HIDE DEF p, s
  <2>5. /\ next' \in [All -> All \cup {None}] /\ prev' \in [All -> All \cup {None}]
        /\ next'[p] = s /\ prev'[s] = p
        /\ \A x \in All : x # p => next'[x] = next[x]
        /\ \A x \in All : x # s => prev'[x] = prev[x]
    BY <2>1, <2>3 DEF TypeOK
  <2>6. Live' = Live \ {n}
    BY <1>1, <2>3 DEF Live
  <2>7. \A x \in Live : /\ next[x] \in Live /\ prev[x] \in Live
                        /\ prev[next[x]] = x /\ next[prev[x]] = x
    BY DEF Undoes
  <2>8. \A x \in Live \ {n} : next'[x] \in Live \ {n} /\ prev'[next'[x]] = x
    BY <1>1, <2>1, <2>2, <2>4, <2>5, <2>7
  <2>9. \A x \in Live \ {n} : prev'[x] \in Live \ {n} /\ next'[prev'[x]] = x
    BY <1>1, <2>1, <2>2, <2>4, <2>5, <2>7
  <2>10. Undoes'
    BY <2>6, <2>8, <2>9 DEF Undoes
  <2>11. own[p] = own[n] /\ own[s] = own[n]
    BY <1>1, <2>1, <2>4 DEF Keeps
  <2>12. \A x \in Live \ {n} : own[next'[x]] = own[x]
    BY <1>1, <2>5, <2>11 DEF Keeps
  <2>13. Keeps(own)'
    BY <2>6, <2>12 DEF Keeps
  <2> QED BY <1>1, <1>3, <2>2, <2>3, <2>4, <2>5, <2>10, <2>13
<1> QED BY <1>2, <1>3

(* ll_remove, and the client that keeps its pointer in the list.           *)
LEMMA StepRemoveNode ==
  ASSUME IInv, NEW n \in Node, RemoveNode(n)
  PROVE  IInv'
<1>1. /\ Idle /\ n \in linked /\ Unlink(n) /\ UNCHANGED loop
      /\ front' = IF front = n THEN next[n] ELSE front
  BY DEF RemoveNode
<1>2. TypeOK /\ Undoes
  BY DEF IInv
<1>3. PICK own \in Owners : Owned(own)
  BY DEF IInv
<1>4. /\ next' \in [All -> All \cup {None}] /\ prev' \in [All -> All \cup {None}]
      /\ linked' \subseteq linked /\ linked \ {n} \subseteq linked'
      /\ next[n] = n => linked' = linked
      /\ Undoes' /\ Keeps(own)'
  BY <1>1, <1>2, <1>3, UnlinkKeeps DEF Owned
<1>5. front = n => next[n] \in linked' /\ own[next[n]] = None
  <2> SUFFICES ASSUME front = n PROVE next[n] \in linked' /\ own[next[n]] = None
    OBVIOUS
  <2>1. n \in Live /\ n # None /\ next[n] \in Live
    BY <1>1, <1>2, LiveNodes DEF Undoes
  <2>2. own[next[n]] = None
    BY <1>3, <2>1 DEF Owned, Keeps
  <2>3. next[n] \notin Header
    BY <1>2, <1>3, <2>2, LiveNodes DEF Owned, Keeps
  <2> QED BY <1>1, <1>4, <2>1, <2>2, <2>3 DEF Live
<1>6. front' \in linked' \cup {None} /\ (front' # None => own[front'] = None)
  BY <1>1, <1>2, <1>3, <1>4, <1>5 DEF TypeOK, Owned
<1>7. linked' \subseteq Node
  BY <1>2, <1>4 DEF TypeOK
<1> QED BY <1>1, <1>3, <1>4, <1>6, <1>7, IdleStep

----------------------------------------------------------------------------
(* ll_foreach.                                                             *)

(* The call takes the nodes of the list as they are.                       *)
LEMMA StepForeachBegin ==
  ASSUME IInv, NEW h \in Header, ForeachBegin(h)
  PROVE  IInv'
<1> DEFINE r == Ring(h)
           t == Tail(r)
           n == Len(r)
<1>1. /\ list' = h /\ cur' = next[h] /\ seen' = << >> /\ todo' = t
      /\ next' = next /\ prev' = prev /\ linked' = linked /\ front' = front
  BY DEF ForeachBegin, links
<1>2. TypeOK /\ Undoes
  BY DEF IInv
<1>3. PICK own \in Owners : Owned(own)
  BY DEF IInv
<1>4. /\ h \in Live /\ h \in All /\ h # None /\ None \notin Header /\ Live \subseteq All
  BY <1>2, LiveNodes
<1>5. Cyclic(next, Live, r, h)
  BY <1>2, <1>4, RingShape
<1>6. \A p \in 1 .. n : own[r[p]] = h
  <2>1. DOMAIN r = 1 .. n
    BY <1>5 DEF Cyclic
  <2>2. \A p \in 1 .. n : r[p] \in Members(h)
    BY <2>1 DEF Members, Range
  <2>3. Keeps(own) /\ own[h] = h
    BY <1>3 DEF Owned, Keeps
  <2> QED BY <1>2, <1>4, <2>2, <2>3, OwnerOfRing
<1> HIDE DEF r
<1>7. /\ r \in Seq(Live) /\ n \in Nat \ {0} /\ r[1] = h
      /\ \A p \in 1 .. n : next[r[p]] = IF p = n THEN h ELSE r[p + 1]
      /\ \A p, q \in 1 .. n : r[p] = r[q] => p = q
      /\ \A p \in 1 .. n : r[p] \in Live
  BY <1>5 DEF Cyclic
<1>8. t \in Seq(Live) /\ Len(t) = n - 1 /\ \A i \in 1 .. Len(t) : t[i] = r[i + 1]
  <2>1. r # << >>
    BY <1>7
  <2> QED BY <1>7, <2>1, HeadTailProperties
<1> HIDE DEF t, n
<1>9. \A i \in 1 .. (n - 1) : i + 1 \in 1 .. n /\ i + 1 # 1 /\ (i + 1 = n <=> ~(i + 1 <= n - 1))
  BY <1>7
<1>10. ASSUME NEW i \in 1 .. Len(t)
       PROVE  /\ t[i] \in linked /\ own[t[i]] = h
              /\ next[t[i]] = IF i + 1 <= Len(t) THEN t[i + 1] ELSE h
  <2>1. t[i] = r[i + 1] /\ i + 1 \in 1 .. n /\ i + 1 # 1 /\ 1 \in 1 .. n
    BY <1>7, <1>8, <1>9
  <2>2. t[i] \in Live /\ own[t[i]] = h /\ t[i] # h
    BY <1>6, <1>7, <2>1
  <2>3. t[i] \notin Header
    BY <1>3, <2>2 DEF Owned, Keeps
  <2>4. CASE i + 1 = n
    BY <1>7, <1>8, <1>9, <2>1, <2>2, <2>3, <2>4 DEF Live
  <2>5. CASE i + 1 # n
    <3>1. i + 1 <= Len(t) /\ i + 1 \in 1 .. Len(t)
      BY <1>7, <1>8, <2>1, <2>5
    <3>2. t[i + 1] = r[(i + 1) + 1] /\ next[r[i + 1]] = r[(i + 1) + 1]
      BY <1>7, <1>8, <2>1, <2>5, <3>1
    <3> QED BY <2>1, <2>2, <2>3, <3>1, <3>2 DEF Live
  <2> QED BY <2>4, <2>5
<1>11. t \in Seq(Node)
  <2>1. linked \subseteq Node
    BY <1>2 DEF TypeOK
  <2>2. \A i \in 1 .. Len(t) : t[i] \in Node
    BY <1>10, <2>1
  <2> QED BY <1>8, <2>2
<1>12. TypeOK'
  <2>1. cur' \in All
    BY <1>1, <1>2, <1>4 DEF Undoes
  <2>2. next' \in [All -> All \cup {None}] /\ prev' \in [All -> All \cup {None}]
        /\ linked' \subseteq Node /\ front' \in linked' \cup {None}
    BY <1>1, <1>2 DEF TypeOK
  <2>3. seen' \in Seq(Node) /\ todo' \in Seq(Node)
    BY <1>1, <1>11
  <2> QED BY <1>1, <1>4, <2>1, <2>2, <2>3 DEF TypeOK
<1>13. Undoes'
  BY <1>1, <1>2 DEF Undoes, Live
<1>14. /\ Len(seen') = 0 /\ Unseen' = 1 .. Len(t) /\ Len(t) \in Nat
       /\ \A i : At(i)' = IF i <= Len(t) THEN t[i] ELSE h
  BY <1>1, <1>7, <1>8 DEF Unseen, At
<1>15. Looping'
  <2>1. next[h] = IF 1 <= Len(t) THEN t[1] ELSE h
    <3>1. CASE n = 1
      BY <1>7, <1>8, <3>1
    <3>2. CASE n # 1
      <4>1. 1 \in 1 .. Len(t) /\ 1 \in 1 .. n /\ 1 + 1 = 2 /\ 1 <= Len(t)
        BY <1>7, <1>8, <3>2
      <4>2. t[1] = r[2] /\ next[h] = r[2]
        BY <1>7, <1>8, <3>2, <4>1
      <4> QED BY <4>1, <4>2
    <3> QED BY <3>1, <3>2
  <2>2. \A i, j \in 1 .. Len(t) : t[i] = t[j] => i = j
    <3> SUFFICES ASSUME NEW i \in 1 .. Len(t), NEW j \in 1 .. Len(t), t[i] = t[j] PROVE i = j
      OBVIOUS
    <3>1. i + 1 \in 1 .. n /\ j + 1 \in 1 .. n /\ r[i + 1] = r[j + 1]
      BY <1>8, <1>9
    <3>2. i + 1 = j + 1
      BY <1>7, <3>1
    <3> QED BY <1>14, <3>2
  <2>3. cur' = At(Len(seen) + 1)'
    BY <1>1, <1>14, <2>1
  <2>4. \A i \in Unseen' : todo'[i] \in linked' /\ next'[todo'[i]] = At(i + 1)'
    BY <1>1, <1>10, <1>14
  <2>5. Len(seen') <= Len(todo') /\ \A i \in 1 .. Len(seen') : seen'[i] = todo'[i]
    BY <1>1, <1>14
  <2> QED BY <1>1, <2>2, <2>3, <2>4, <2>5 DEF Looping
<1>16. Owned(own)'
  <2>1. Keeps(own)'
    BY <1>1, <1>3 DEF Owned, Keeps, Live
  <2>2. front' # None => own[front'] = None
    BY <1>1, <1>3 DEF Owned
  <2>3. \A i \in Unseen' : own[todo'[i]] = list'
    BY <1>1, <1>10, <1>14
  <2> QED BY <2>1, <2>2, <2>3 DEF Owned
<1> QED BY <1>12, <1>13, <1>15, <1>16 DEF IInv

(* Where the loop is: at the first node not passed yet.                    *)
LEMMA AtUnseen ==
  ASSUME IInv, ~Idle, cur # list
  PROVE  LET k == Len(seen) + 1
         IN  /\ k \in 1 .. Len(todo) /\ k \in Unseen /\ Len(seen) \in Nat /\ Len(todo) \in Nat
             /\ cur = todo[k] /\ cur \in linked /\ next[cur] = At(k + 1)
<1> DEFINE k == Len(seen) + 1
<1>1. seen \in Seq(Node) /\ todo \in Seq(Node)
  BY DEF IInv, TypeOK
<1>2. Len(seen) \in Nat /\ Len(todo) \in Nat
  BY <1>1
<1>3. cur = At(k) /\ Len(seen) <= Len(todo)
  BY DEF IInv, Looping
<1>4. k <= Len(todo) /\ cur = todo[k]
  BY <1>3 DEF At
<1>5. k \in Unseen /\ k \in 1 .. Len(todo)
  BY <1>2, <1>4 DEF Unseen
<1>6. todo[k] \in linked /\ next[todo[k]] = At(k + 1)
  BY <1>5 DEF IInv, Looping
<1> QED BY <1>2, <1>4, <1>5, <1>6

(* body has been passed cur and the loop goes on; whatever else changed,   *)
(* the nodes still to pass are chained as they were.                       *)
LEMMA LoopGoesOn ==
  ASSUME IInv, ~Idle, cur # list,
         seen' = Append(seen, cur), cur' = next[cur], list' = list, todo' = todo,
         front' = front, next' \in [All -> All \cup {None}], prev' \in [All -> All \cup {None}],
         linked' \subseteq linked, linked \ {cur} \subseteq linked',
         front # None => front \in linked',
         \A x \in Live : x # prev[cur] => next'[x] = next[x],
         Undoes', NEW own \in Owners, Owned(own), Keeps(own)'
  PROVE  IInv'
<1> DEFINE k == Len(seen) + 1
<1>1. /\ k \in 1 .. Len(todo) /\ k \in Unseen /\ Len(seen) \in Nat /\ Len(todo) \in Nat
      /\ cur = todo[k] /\ cur \in linked /\ next[cur] = At(k + 1)
  BY AtUnseen
<1>2. TypeOK /\ Undoes /\ Looping
  BY DEF IInv
<1>3. list \in Header /\ seen \in Seq(Node) /\ todo \in Seq(Node) /\ list # None
  BY <1>2 DEF TypeOK, Idle
<1>4. cur \in Node /\ cur \in Live /\ linked \subseteq Live /\ Live \subseteq All
  BY <1>1, <1>2, LiveNodes DEF TypeOK
<1>5. /\ seen' \in Seq(Node) /\ Len(seen') = k
      /\ seen'[k] = cur /\ \A i \in 1 .. Len(seen) : seen'[i] = seen[i]
  BY <1>3, <1>4
<1>6. TypeOK'
  <2>1. cur' \in All
    BY <1>2, <1>4 DEF Undoes
  <2>2. linked' \subseteq Node /\ front' \in linked' \cup {None}
    BY <1>2 DEF TypeOK
  <2> QED BY <1>3, <1>5, <2>1, <2>2 DEF TypeOK
<1>7. Unseen' = (k + 1) .. Len(todo) /\ \A i : At(i)' = At(i)
  BY <1>5 DEF Unseen, At
<1>8. /\ \A i \in 1 .. Len(seen) : seen[i] = todo[i]
      /\ \A i, j \in 1 .. Len(todo) : todo[i] = todo[j] => i = j
      /\ \A i \in Unseen : todo[i] \in linked /\ next[todo[i]] = At(i + 1)
  BY <1>2 DEF Looping
<1> HIDE DEF k
<1>9. k \in Nat /\ \A i \in (k + 1) .. Len(todo) : i \in Unseen /\ i \in 1 .. Len(todo) /\ i # k
  BY <1>1 DEF Unseen, k
<1>10. ASSUME NEW i \in (k + 1) .. Len(todo)
       PROVE  todo[i] \in linked' /\ next'[todo[i]] = At(i + 1)
  <2>1. /\ i \in Unseen /\ i \in 1 .. Len(todo) /\ i # k
        /\ todo[i] \in linked /\ next[todo[i]] = At(i + 1) /\ todo[i] # cur
    BY <1>1, <1>8, <1>9
  <2>2. todo[i] \in linked' /\ todo[i] \in Live
    BY <1>4, <2>1
  <2>3. At(i + 1) # cur
    <3>1. CASE i + 1 <= Len(todo)
      <4>1. i + 1 \in 1 .. Len(todo) /\ i + 1 # k
        BY <1>1, <1>9, <3>1
      <4> QED BY <1>1, <1>8, <3>1, <4>1 DEF At
    <3>2. CASE ~(i + 1 <= Len(todo))
      BY <3>2 DEF At
    <3> QED BY <3>1, <3>2
  <2>4. next[prev[cur]] = cur
    BY <1>2, <1>4 DEF Undoes
  <2>5. todo[i] # prev[cur]
    BY <2>1, <2>3, <2>4
  <2> QED BY <2>1, <2>2, <2>5
<1>11. Looping'
  <2>1. \A i \in 1 .. k : seen'[i] = todo'[i]
    <3>1. \A i \in 1 .. k : i \in 1 .. Len(seen) \/ i = k
      BY <1>1 DEF k
    <3> QED BY <1>1, <1>5, <1>8, <3>1
  <2>2. /\ k <= Len(todo') /\ Len(seen') = k
        /\ cur' = IF k + 1 <= Len(todo') THEN todo'[k + 1] ELSE list'
    BY <1>1, <1>5 DEF At
  <2>3. \A i \in Unseen' : todo'[i] \in linked' /\ next'[todo'[i]] = At(i + 1)'
    BY <1>7, <1>10
  <2>4. cur' = At(Len(seen) + 1)'
    <3>1. Len(seen') + 1 = k + 1
      BY <2>2
    <3>2. At(Len(seen) + 1)' = IF k + 1 <= Len(todo') THEN todo'[k + 1] ELSE list'
      BY <3>1 DEF At
    <3> QED BY <2>2, <3>2
  <2> QED BY <1>8, <2>1, <2>2, <2>3, <2>4 DEF Looping
<1>12. Owned(own)'
  <2>1. \A i \in Unseen' : own[todo'[i]] = list'
    BY <1>7, <1>9 DEF Owned
  <2> QED BY <2>1 DEF Owned
<1> QED BY <1>6, <1>11, <1>12 DEF IInv

(* body leaves the list alone.                                             *)
LEMMA StepForeachStep ==
  ASSUME IInv, ForeachStep
  PROVE  IInv'
<1>1. /\ ~Idle /\ cur # list /\ seen' = Append(seen, cur) /\ cur' = next[cur]
      /\ list' = list /\ todo' = todo
      /\ next' = next /\ prev' = prev /\ linked' = linked /\ front' = front
  BY DEF ForeachStep, links
<1>2. PICK own \in Owners : Owned(own)
  BY DEF IInv
<1>3. Undoes' /\ Keeps(own)'
  BY <1>1, <1>2 DEF IInv, Undoes, Owned, Keeps, Live
<1>4. /\ next' \in [All -> All \cup {None}] /\ prev' \in [All -> All \cup {None}]
      /\ front # None => front \in linked'
  BY <1>1 DEF IInv, TypeOK
<1> QED BY <1>1, <1>2, <1>3, <1>4, LoopGoesOn

(* body removes the node it is passed.                                     *)
LEMMA StepForeachRemove ==
  ASSUME IInv, ForeachRemove
  PROVE  IInv'
<1>1. /\ ~Idle /\ cur # list /\ seen' = Append(seen, cur) /\ Unlink(cur) /\ cur' = next'[cur]
      /\ list' = list /\ todo' = todo /\ front' = front
  BY DEF ForeachRemove
<1>2. PICK own \in Owners : Owned(own)
  BY DEF IInv
<1>3. TypeOK /\ Undoes
  BY DEF IInv
<1>4. /\ cur \in linked /\ Len(seen) + 1 \in Unseen /\ cur = todo[Len(seen) + 1]
  BY <1>1, AtUnseen
<1>5. /\ next' \in [All -> All \cup {None}] /\ prev' \in [All -> All \cup {None}]
      /\ linked' \subseteq linked /\ linked \ {cur} \subseteq linked'
      /\ next'[cur] = next[cur] /\ \A x \in Live : x # prev[cur] => next'[x] = next[x]
      /\ Undoes' /\ Keeps(own)'
  BY <1>1, <1>2, <1>3, <1>4, UnlinkKeeps DEF Owned
<1>6. front # None => front \in linked'
  <2>1. own[cur] = list /\ list # None
    BY <1>1, <1>2, <1>4 DEF Owned, Idle
  <2>2. front # None => front # cur /\ front \in linked
    BY <1>2, <1>3, <2>1 DEF Owned, TypeOK
  <2> QED BY <1>5, <2>2
<1> QED BY <1>1, <1>2, <1>5, <1>6, LoopGoesOn

(* The loop is over.                                                       *)
LEMMA StepForeachReturn ==
  ASSUME IInv, ForeachReturn
  PROVE  IInv'
<1>1. /\ list' = None /\ cur' = None /\ seen' = << >> /\ todo' = << >>
      /\ next' = next /\ prev' = prev /\ linked' = linked /\ front' = front
  BY DEF ForeachReturn, links
<1>2. TypeOK'
  BY <1>1 DEF IInv, TypeOK
<1>3. Undoes' /\ Looping'
  BY <1>1 DEF IInv, Undoes, Live, Looping, Idle
<1>4. PICK own \in Owners : Owned(own)
  BY DEF IInv
<1>5. Owned(own)'
  BY <1>1, <1>4 DEF Owned, Keeps, Live, Idle
<1> QED BY <1>2, <1>3, <1>5 DEF IInv

(* The invariant holds at the start.                                       *)
LEMMA InitIInv ==
  ASSUME Init
  PROVE  IInv
<1>1. /\ linked = {} /\ front = None /\ list = None /\ cur = None /\ seen = << >>
      /\ todo = << >> /\ Header \subseteq All
      /\ next = [x \in All |-> IF x \in Header THEN x ELSE None] /\ prev = next
  BY DEF Init, All
<1>2. TypeOK
  BY <1>1 DEF TypeOK
<1>3. Live = Header /\ \A x \in Header : next[x] = x /\ prev[x] = x
  BY <1>1 DEF Live
<1>4. Undoes /\ Looping
  BY <1>1, <1>3 DEF Undoes, Looping, Idle
<1> DEFINE o == [x \in All |-> IF x \in Header THEN x ELSE None]
<1>5. o \in Owners /\ \A x \in Header : o[x] = x
  BY <1>1 DEF Owners
<1> HIDE DEF o
<1>6. Owned(o)
  BY <1>1, <1>3, <1>5 DEF Owned, Keeps, Idle
<1> QED BY <1>2, <1>4, <1>5, <1>6 DEF IInv

(* The invariant holds in every reachable state.                           *)
LEMMA IInvAlways == Spec => []IInv
<1>1. Init => IInv
  BY InitIInv
<1>2. ASSUME IInv, [Next]_vars PROVE IInv'
  <2>1. CASE \E n \in Node : InitNode(n)
    BY <1>2, <2>1, StepInitNode
  <2>2. CASE \E n \in Node : Enter(n)
    BY <1>2, <2>2, StepEnter
  <2>3. CASE \E n \in Node : RemoveNode(n)
    BY <1>2, <2>3, StepRemoveNode
  <2>4. CASE \E n \in Node : PushFront(n)
    BY <1>2, <2>4, StepPushFront
  <2>5. CASE \E n \in Node : \E dst \in All : EmplaceBack(dst, n)
    BY <1>2, <2>5, StepEmplaceBack
  <2>6. CASE \E n \in Node : \E dst \in All : PushBack(dst, n)
    BY <1>2, <2>6, StepPushBack
  <2>7. CASE \E h \in Header : ForeachBegin(h)
    BY <1>2, <2>7, StepForeachBegin
  <2>8. CASE ForeachStep
    BY <1>2, <2>8, StepForeachStep
  <2>9. CASE ForeachRemove
    BY <1>2, <2>9, StepForeachRemove
  <2>10. CASE ForeachReturn
    BY <1>2, <2>10, StepForeachReturn
  <2>11. CASE UNCHANGED vars
    <3>1. /\ next' = next /\ prev' = prev /\ linked' = linked /\ front' = front
          /\ list' = list /\ cur' = cur /\ seen' = seen /\ todo' = todo
      BY <2>11 DEF vars, links, loop
    <3>2. TypeOK' /\ Undoes' /\ Looping'
      BY <1>2, <3>1 DEF IInv, TypeOK, Undoes, Live, Looping, Idle, Unseen, At
    <3>3. PICK own \in Owners : Owned(own)
      BY <1>2 DEF IInv
    <3>4. Owned(own)'
      BY <3>1, <3>3 DEF Owned, Keeps, Live, Idle, Unseen
    <3> QED BY <3>2, <3>4 DEF IInv
  <2> QED BY <1>2, <2>1, <2>2, <2>3, <2>4, <2>5, <2>6, <2>7, <2>8, <2>9, <2>10, <2>11 DEF Next
<1> QED BY <1>1, <1>2, PTL DEF Spec

(* In every ring prev undoes next, and no ring reaches a removed node,     *)
(* whatever was spliced and removed before (linkedlist.c:20-44, 105-112).  *)
THEOREM ListConsistent == Spec => []Consistent
<1>1. IInv => Consistent
  BY DEF IInv, Undoes, Consistent, Live
<1> QED BY <1>1, IInvAlways, PTL

(* ll_foreach passes the nodes of the list in order, each once, also when  *)
(* body removes the node it was passed (linkedlist.c:51-69).               *)
THEOREM ListForeachExact == Spec => []ForeachExact
<1>1. IInv => ForeachExact
  <2> SUFFICES ASSUME IInv, ~Idle PROVE IsPrefix(seen, todo) /\ (cur = list => seen = todo)
    BY DEF ForeachExact
  <2> DEFINE n == Len(seen)
  <2>1. /\ seen \in Seq(Node) /\ todo \in Seq(Node) /\ n <= Len(todo) /\ n \in Nat
        /\ list \in Header /\ \A i \in 1 .. n : seen[i] = todo[i] /\ cur = At(n + 1)
        /\ Len(todo) \in Nat
    BY DEF IInv, TypeOK, Looping, Idle
  <2>2. cur = At(n + 1)
    BY DEF IInv, Looping
  <2> HIDE DEF n
  <2>3. n = Len(seen)
    BY DEF n
  <2>4. IsPrefix(seen, todo)
    <3>1. SubSeq(seen, 1, n) = [i \in 1 .. n |-> seen[i]]
      BY <2>1, <2>3
    <3>2. SubSeq(todo, 1, n) = [i \in 1 .. n |-> todo[i]]
      BY <2>1
    <3>3. SubSeq(seen, 1, n) = SubSeq(todo, 1, n)
      BY <2>1, <3>1, <3>2
    <3> QED BY <2>1, <2>3, <3>3 DEF IsPrefix
  <2>5. ASSUME cur = list PROVE seen = todo
    <3>1. n = Len(todo)
      <4> SUFFICES ASSUME n # Len(todo) PROVE FALSE
        OBVIOUS
      <4>1. n + 1 <= Len(todo) /\ n + 1 \in 1 .. Len(todo)
        BY <2>1
      <4>2. cur = todo[n + 1]
        BY <2>2, <4>1 DEF At
      <4>3. cur \in Node
        BY <2>1, <4>1, <4>2
      <4>4. cur \in Header
        BY <2>1, <2>5
      <4> QED BY <4>3, <4>4, ListAssumption
    <3>2. Len(seen) = Len(todo) /\ \A i \in 1 .. Len(seen) : seen[i] = todo[i]
      BY <2>1, <2>3, <3>1
    <3> QED BY <2>1, <3>2, SeqEqual, Zenon
  <2> QED BY <2>4, <2>5
<1> QED BY <1>1, IInvAlways, PTL

----------------------------------------------------------------------------
(* ll_get and ll_get_reverse.                                              *)

(* A walk whose steps lead from one place of r to another.                 *)
Through(ptr, x, r, pos) ==
    r[pos[0]] = x /\ \A m \in 0 .. Most : m # 0 => r[pos[m]] = ptr[r[pos[m - 1]]]

(* By the least place where walk and ring part.                            *)
LEMMA WalkPlaces ==
  ASSUME NEW ptr, NEW x, NEW r, NEW pos, Through(ptr, x, r, pos)
  PROVE  \A m \in 0 .. Most : Walk(ptr, x)[m] = r[pos[m]]
<1> DEFINE W == Walk(ptr, x)
           S == {m \in 0 .. Most : W[m] # r[pos[m]]}
<1>1. W[0] = x /\ \A m \in 0 .. Most : m # 0 => W[m] = ptr[W[m - 1]]
  BY WalkSteps
<1> HIDE DEF W
<1>0. r[pos[0]] = x /\ \A m \in 0 .. Most : m # 0 => r[pos[m]] = ptr[r[pos[m - 1]]]
  BY DEF Through
<1>2. CASE S = {}
  BY <1>2 DEF W
<1>3. CASE S # {}
  <2>1. PICK m \in S : \A j \in S : m <= j
    <3>1. S \subseteq Nat
      BY MostType
    <3> QED BY <1>3, <3>1, LeastNat, Zenon
  <2>2. m # 0
    BY <1>0, <1>1, <2>1
  <2>3. m \in 0 .. Most /\ m - 1 \in 0 .. Most /\ ~(m <= m - 1)
    BY <2>1, <2>2, MostType
  <2>4. W[m - 1] = r[pos[m - 1]]
    BY <2>1, <2>3
  <2>5. W[m] = r[pos[m]]
    BY <1>0, <1>1, <2>2, <2>3, <2>4
  <2> QED BY <2>1, <2>5
<1> QED BY <1>2, <1>3

(* From one place of a ring of n to the next, and back.                    *)
LEMMA Onwards ==
  ASSUME NEW n \in Nat \ {0}, NEW m \in Nat
  PROVE  LET p == (((m % n) + 1) % n) + 1
             q == ((((m + 1) % n) + 1) % n) + 1
         IN  p \in 1 .. n /\ q \in 1 .. n /\ q = IF p = n THEN 1 ELSE p + 1
<1> DEFINE k == m % n
           l == (m + 1) % n
<1>1. k \in Nat /\ k < n /\ l \in Nat /\ l < n /\ l = IF k = n - 1 THEN 0 ELSE k + 1
  <2>1. k \in Nat /\ k < n
    BY Division
  <2>2. l = IF k = n - 1 THEN 0 ELSE k + 1
    BY NextRemainder
  <2> HIDE DEF k, l
  <2> QED BY <2>1, <2>2
<1> HIDE DEF k, l
<1>2. \A j \in Nat : j < n => (j % n = j)
  OBVIOUS
<1>3. \A j \in Nat : j < n => (j + 1) % n = IF j = n - 1 THEN 0 ELSE j + 1
  BY <1>2, NextRemainder
<1>4. /\ (k + 1) % n = IF k = n - 1 THEN 0 ELSE k + 1
      /\ (l + 1) % n = IF l = n - 1 THEN 0 ELSE l + 1
  BY <1>1, <1>3
<1> DEFINE a == (k + 1) % n
           b == (l + 1) % n
<1>5. a = (IF k = n - 1 THEN 0 ELSE k + 1) /\ b = (IF l = n - 1 THEN 0 ELSE l + 1)
  BY <1>4
<1> HIDE DEF a, b
<1>6. a + 1 \in 1 .. n /\ b + 1 \in 1 .. n /\ b + 1 = IF a + 1 = n THEN 1 ELSE (a + 1) + 1
  BY <1>1, <1>5
<1> QED BY <1>6 DEF a, b, k, l

(* And back.                                                               *)
LEMMA Backwards ==
  ASSUME NEW n \in Nat \ {0}, NEW m \in Nat
  PROVE  LET p == n - (m % n)
             q == n - ((m + 1) % n)
         IN  p \in 1 .. n /\ q \in 1 .. n /\ q = IF p = 1 THEN n ELSE p - 1
<1> DEFINE k == m % n
           l == (m + 1) % n
<1>1. k \in Nat /\ k < n /\ l \in Nat /\ l < n /\ l = IF k = n - 1 THEN 0 ELSE k + 1
  <2>1. k \in Nat /\ k < n
    BY Division
  <2>2. l = IF k = n - 1 THEN 0 ELSE k + 1
    BY NextRemainder
  <2> HIDE DEF k, l
  <2> QED BY <2>1, <2>2
<1> HIDE DEF k, l
<1>2. n - k \in 1 .. n /\ n - l \in 1 .. n /\ n - l = IF n - k = 1 THEN n ELSE (n - k) - 1
  BY <1>1
<1> QED BY <1>2 DEF k, l

(* ll_get and ll_get_reverse return the node at the index modulo the       *)
(* number of nodes and the header (linkedlist.h:111-127).                  *)
THEOREM ListGetIsModular == Spec => []GetIsModular
<1>1. IInv => GetIsModular
  <2> SUFFICES ASSUME IInv, NEW h \in Header, NEW idx \in 0 .. (2 * Cardinality(Node))
               PROVE  LET r == Ring(h)
                          k == idx % Len(r)
                      IN  /\ Get(h, idx) = r[((k + 1) % Len(r)) + 1]
                          /\ GetReverse(h, idx) = r[Len(r) - k]
    BY DEF GetIsModular
  <2> DEFINE r == Ring(h)
             n == Len(r)
  <2>1. TypeOK /\ Undoes /\ h \in Live
    BY LiveNodes DEF IInv
  <2>2. Cyclic(next, Live, r, h)
    BY <2>1, RingShape
  <2> HIDE DEF r
  <2>3. /\ n \in Nat \ {0} /\ r[1] = h /\ \A p \in 1 .. n : r[p] \in Live
        /\ \A p \in 1 .. n : next[r[p]] = IF p = n THEN h ELSE r[p + 1]
    BY <2>2 DEF Cyclic
  <2> HIDE DEF n
  <2>4. \A p \in 1 .. n : next[r[p]] = r[IF p = n THEN 1 ELSE p + 1]
    BY <2>3
  <2>5. \A p \in 1 .. n : prev[r[p]] = r[IF p = 1 THEN n ELSE p - 1]
    <3> SUFFICES ASSUME NEW p \in 1 .. n PROVE prev[r[p]] = r[IF p = 1 THEN n ELSE p - 1]
      OBVIOUS
    <3> DEFINE q == IF p = 1 THEN n ELSE p - 1
    <3>1. q \in 1 .. n /\ (IF q = n THEN 1 ELSE q + 1) = p
      BY <2>3
    <3> HIDE DEF q
    <3>2. next[r[q]] = r[p] /\ r[q] \in Live
      BY <2>3, <2>4, <3>1
    <3>3. prev[r[p]] = r[q]
      BY <2>1, <3>2 DEF Undoes
    <3> QED BY <3>3 DEF q
  <2>6. idx \in 0 .. Most /\ Most \in Nat /\ 0 \in 0 .. Most
    <3>1. IsFiniteSet(All) /\ Node \in SUBSET All
      BY ListAssumption DEF All
    <3>2. Cardinality(Node) <= Cardinality(All) /\ IsFiniteSet(Node)
      BY <3>1, FS_Subset
    <3>3. Cardinality(Node) \in Nat /\ Cardinality(All) \in Nat
      BY <3>1, <3>2, FS_CardinalityType
    <3> QED BY <3>2, <3>3 DEF Most
  <2>7. \A m \in 0 .. Most : m # 0 => m - 1 \in Nat /\ (m - 1) + 1 = m /\ m - 1 \in 0 .. Most
    BY <2>6
  <2>8. 0 % n = 0 /\ (1 % n) + 1 = IF n = 1 THEN 1 ELSE 2
    BY <2>3
  <2>9. Get(h, idx) = r[(((idx % n) + 1) % n) + 1]
    <3> DEFINE At0(m) == (((m % n) + 1) % n) + 1
               pos == [m \in 0 .. Most |-> At0(m)]
    <3>1. \A m \in Nat : At0(m) \in 1 .. n /\ At0(m + 1) = IF At0(m) = n THEN 1 ELSE At0(m) + 1
      BY <2>3, Onwards
    <3>2. r[At0(0)] = next[h]
      <4>1. At0(0) = IF 1 = n THEN 1 ELSE 1 + 1
        BY <2>3, <2>8
      <4>2. next[r[1]] = r[IF 1 = n THEN 1 ELSE 1 + 1]
        BY <2>3, <2>4
      <4> QED BY <2>3, <4>1, <4>2
    <3> HIDE DEF At0
    <3>3. \A m \in 0 .. Most : m # 0 => r[At0(m)] = next[r[At0(m - 1)]]
      <4> SUFFICES ASSUME NEW m \in 0 .. Most, m # 0 PROVE r[At0(m)] = next[r[At0(m - 1)]]
        OBVIOUS
      <4>1. m - 1 \in Nat /\ (m - 1) + 1 = m
        BY <2>7
      <4>2. At0(m - 1) \in 1 .. n /\ At0(m) = IF At0(m - 1) = n THEN 1 ELSE At0(m - 1) + 1
        BY <3>1, <4>1
      <4> QED BY <2>4, <4>2
    <3>4. \A m \in 0 .. Most : pos[m] = At0(m)
      OBVIOUS
    <3> HIDE DEF pos
    <3>5. Through(next, next[h], r, pos)
      BY <2>6, <2>7, <3>2, <3>3, <3>4 DEF Through
    <3>6. \A m \in 0 .. Most : Walk(next, next[h])[m] = r[pos[m]]
      BY <3>5, WalkPlaces
    <3> QED BY <2>6, <3>4, <3>6 DEF Get, At0
  <2>10. GetReverse(h, idx) = r[n - (idx % n)]
    <3> DEFINE At0(m) == n - (m % n)
               pos == [m \in 0 .. Most |-> At0(m)]
    <3>1. \A m \in Nat : At0(m) \in 1 .. n /\ At0(m + 1) = IF At0(m) = 1 THEN n ELSE At0(m) - 1
      BY <2>3, Backwards
    <3>2. r[At0(0)] = prev[h]
      <4>1. At0(0) = n
        BY <2>3, <2>8
      <4>2. prev[r[1]] = r[n]
        BY <2>3, <2>5
      <4> QED BY <2>3, <4>1, <4>2
    <3> HIDE DEF At0
    <3>3. \A m \in 0 .. Most : m # 0 => r[At0(m)] = prev[r[At0(m - 1)]]
      <4> SUFFICES ASSUME NEW m \in 0 .. Most, m # 0 PROVE r[At0(m)] = prev[r[At0(m - 1)]]
        OBVIOUS
      <4>1. m - 1 \in Nat /\ (m - 1) + 1 = m
        BY <2>7
      <4>2. At0(m - 1) \in 1 .. n /\ At0(m) = IF At0(m - 1) = 1 THEN n ELSE At0(m - 1) - 1
        BY <3>1, <4>1
      <4> QED BY <2>5, <4>2
    <3>4. \A m \in 0 .. Most : pos[m] = At0(m)
      OBVIOUS
    <3> HIDE DEF pos
    <3>5. Through(prev, prev[h], r, pos)
      BY <2>6, <2>7, <3>2, <3>3, <3>4 DEF Through
    <3>6. \A m \in 0 .. Most : Walk(prev, prev[h])[m] = r[pos[m]]
      BY <3>5, WalkPlaces
    <3> QED BY <2>6, <3>4, <3>6 DEF GetReverse, At0
  <2> QED BY <2>9, <2>10 DEF r, n
<1> QED BY <1>1, IInvAlways, PTL

----------------------------------------------------------------------------
(* Rings as sequences.                                                     *)

(* The pointers determine the ring.                                        *)
LEMMA SameStart ==
  ASSUME NEW ptr, NEW S, NEW r, NEW s, NEW x, Cyclic(ptr, S, r, x), Cyclic(ptr, S, s, x)
  PROVE  /\ \A p \in 1 .. Len(r) : p <= Len(s) => r[p] = s[p]
         /\ ~(Len(r) < Len(s))
<1> DEFINE m == Len(r)
           n == Len(s)
           B == {p \in 1 .. m : p <= n /\ r[p] # s[p]}
<1>1. /\ m \in Nat \ {0} /\ r[1] = x
      /\ \A p \in 1 .. m : ptr[r[p]] = IF p = m THEN x ELSE r[p + 1]
  BY DEF Cyclic
<1>2. /\ n \in Nat \ {0} /\ s[1] = x
      /\ \A p \in 1 .. n : ptr[s[p]] = IF p = n THEN x ELSE s[p + 1]
      /\ \A p, q \in 1 .. n : s[p] = s[q] => p = q
  BY DEF Cyclic
<1> HIDE DEF m, n
<1>3. B = {}
  <2> SUFFICES ASSUME B # {} PROVE FALSE
    OBVIOUS
  <2>1. PICK k \in B : \A j \in B : k <= j
    <3>1. B \subseteq Nat
      BY <1>1
    <3> QED BY <3>1, LeastNat, Zenon
  <2>2. k # 1
    BY <1>1, <1>2, <2>1
  <2> DEFINE q == k - 1
  <2>3. q \in 1 .. m /\ q \in 1 .. n /\ q # m /\ q # n /\ q + 1 = k /\ ~(k <= q) /\ q <= n
    BY <1>1, <1>2, <2>1, <2>2
  <2> HIDE DEF q
  <2>4. r[q] = s[q]
    BY <2>1, <2>3
  <2>5. ptr[r[q]] = r[k] /\ ptr[s[q]] = s[k]
    BY <1>1, <1>2, <2>3
  <2> QED BY <2>1, <2>4, <2>5
<1>4. ~(m < n)
  <2> SUFFICES ASSUME m < n PROVE FALSE
    OBVIOUS
  <2>1. m \in 1 .. m /\ m \in 1 .. n /\ m # n /\ m <= n /\ m + 1 \in 1 .. n /\ 1 \in 1 .. n
        /\ m + 1 # 1
    BY <1>1, <1>2
  <2>2. r[m] = s[m]
    BY <1>3, <2>1
  <2>3. s[m + 1] = x
    BY <1>1, <1>2, <2>1, <2>2
  <2> QED BY <1>2, <2>1, <2>3
<1> QED BY <1>3, <1>4 DEF m, n

(* Two rings from one node by the same pointers are one.                   *)
LEMMA OneRing ==
  ASSUME NEW ptr, NEW S, NEW r, NEW s, NEW x, Cyclic(ptr, S, r, x), Cyclic(ptr, S, s, x)
  PROVE  r = s
<1>1. ~(Len(r) < Len(s)) /\ ~(Len(s) < Len(r))
  BY SameStart, Zenon
<1>2. \A p \in 1 .. Len(r) : p <= Len(s) => r[p] = s[p]
  BY SameStart
<1>3. r \in Seq(S) /\ s \in Seq(S) /\ Len(r) \in Nat /\ Len(s) \in Nat
  BY DEF Cyclic
<1>4. Len(r) = Len(s)
  BY <1>1, <1>3
<1>5. \A p \in 1 .. Len(r) : r[p] = s[p]
  BY <1>2, <1>3, <1>4
<1> QED BY <1>3, <1>4, <1>5, SeqEqual, Zenon

(* The ring c read from its p-th node on.                                  *)
Turned(c, p) == SubSeq(c, p, Len(c)) \o SubSeq(c, 1, p - 1)

(* Its nodes, place by place.                                              *)
LEMMA TurnedForm ==
  ASSUME NEW S, NEW c \in Seq(S), NEW p \in 1 .. Len(c)
  PROVE  /\ Turned(c, p) \in Seq(S) /\ Len(Turned(c, p)) = Len(c)
         /\ \A i \in 1 .. Len(c) :
               Turned(c, p)[i] = c[IF i <= (Len(c) - p) + 1 THEN (p + i) - 1
                                   ELSE i - ((Len(c) - p) + 1)]
<1> DEFINE n == Len(c)
           a == SubSeq(c, p, n)
           b == SubSeq(c, 1, p - 1)
           k == (n - p) + 1
<1>1. n \in Nat /\ p \in Nat /\ p - 1 \in Nat /\ k \in Nat /\ p <= n /\ k + (p - 1) = n
  OBVIOUS
<1>2. (\A i \in p .. n : c[i] \in S) /\ (\A i \in 1 .. (p - 1) : c[i] \in S)
  BY <1>1
<1>3. /\ a \in Seq(S) /\ Len(a) = k /\ \A i \in 1 .. k : a[i] = c[(p + i) - 1]
  BY <1>1, <1>2, SubSeqProperties
<1>4. /\ b \in Seq(S) /\ Len(b) = p - 1 /\ \A i \in 1 .. (p - 1) : b[i] = c[i]
  BY <1>1, <1>2, SubSeqProperties
<1> HIDE DEF a, b
<1>5. a \o b \in Seq(S) /\ Len(a \o b) = n
  <2>1. a \o b \in Seq(S) /\ Len(a \o b) = Len(a) + Len(b)
    BY <1>3, <1>4, ConcatProperties, Zenon
  <2> QED BY <1>1, <1>3, <1>4, <2>1
<1>6. ASSUME NEW i \in 1 .. n
      PROVE  (a \o b)[i] = c[IF i <= k THEN (p + i) - 1 ELSE i - k]
  <2>1. CASE i <= k
    <3>1. i \in 1 .. k
      BY <1>1, <2>1
    <3>2. (a \o b)[i] = a[i]
      BY <1>3, <1>4, <3>1
    <3> QED BY <1>3, <2>1, <3>1, <3>2
  <2>2. CASE ~(i <= k)
    <3>1. i - k \in 1 .. (p - 1) /\ i \in (k + 1) .. (k + (p - 1))
      BY <1>1, <2>2
    <3>2. (a \o b)[i] = b[i - k]
      BY <1>1, <1>3, <1>4, <2>2, <3>1
    <3> QED BY <1>4, <2>2, <3>1, <3>2
  <2> QED BY <2>1, <2>2
<1> QED BY <1>5, <1>6 DEF Turned, a, b

(* It is a ring again.                                                     *)
LEMMA TurnedCyclic ==
  ASSUME NEW ptr, NEW S, NEW c, NEW y, Cyclic(ptr, S, c, y), NEW p \in 1 .. Len(c)
  PROVE  Cyclic(ptr, S, Turned(c, p), c[p])
<1> DEFINE n == Len(c)
           t == Turned(c, p)
           at(i) == IF i <= (n - p) + 1 THEN (p + i) - 1 ELSE i - ((n - p) + 1)
<1>1. /\ c \in Seq(S) /\ n \in Nat \ {0} /\ c[1] = y
      /\ \A q \in 1 .. n : ptr[c[q]] = IF q = n THEN y ELSE c[q + 1]
      /\ \A i, j \in 1 .. n : c[i] = c[j] => i = j
  BY DEF Cyclic
<1>2. t \in Seq(S) /\ Len(t) = n /\ \A i \in 1 .. n : t[i] = c[at(i)]
  BY <1>1, TurnedForm
<1> HIDE DEF t
<1>3. p \in 1 .. n
  OBVIOUS
<1> HIDE DEF n
<1>4. /\ \A i \in 1 .. n : at(i) \in 1 .. n
      /\ \A i \in 1 .. n : i # n => at(i + 1) = IF at(i) = n THEN 1 ELSE at(i) + 1
      /\ at(1) = p /\ p = (IF at(n) = n THEN 1 ELSE at(n) + 1)
      /\ \A i, j \in 1 .. n : at(i) = at(j) => i = j
      /\ 1 \in 1 .. n /\ \A i \in 1 .. n : i # n => i + 1 \in 1 .. n
  <2>1. n \in Nat \ {0} /\ p \in Nat \ {0} /\ p <= n
    BY <1>1, <1>3
  <2>2. \A i \in 1 .. n : at(i) \in 1 .. n
    BY <2>1
  <2>3. \A i \in 1 .. n : i # n => at(i + 1) = IF at(i) = n THEN 1 ELSE at(i) + 1
    BY <2>1
  <2>4. at(1) = p /\ p = (IF at(n) = n THEN 1 ELSE at(n) + 1)
    BY <2>1
  <2>5. \A i, j \in 1 .. n : at(i) = at(j) => i = j
    BY <2>1
  <2>6. 1 \in 1 .. n /\ \A i \in 1 .. n : i # n => i + 1 \in 1 .. n
    BY <2>1
  <2> HIDE DEF at
  <2> QED BY <2>2, <2>3, <2>4, <2>5, <2>6
<1> HIDE DEF at
<1>5. t[1] = c[p]
  BY <1>2, <1>4
<1>6. \A q \in 1 .. n : ptr[c[q]] = c[IF q = n THEN 1 ELSE q + 1]
  BY <1>1
<1>7. ASSUME NEW i \in 1 .. n PROVE ptr[t[i]] = IF i = n THEN c[p] ELSE t[i + 1]
  <2>1. ptr[t[i]] = c[IF at(i) = n THEN 1 ELSE at(i) + 1]
    BY <1>2, <1>4, <1>6
  <2>2. CASE i = n
    BY <1>4, <2>1, <2>2
  <2>3. CASE i # n
    <3>1. t[i + 1] = c[at(i + 1)] /\ at(i + 1) = IF at(i) = n THEN 1 ELSE at(i) + 1
      BY <1>2, <1>4, <2>3
    <3> QED BY <2>1, <2>3, <3>1
  <2> QED BY <2>2, <2>3
<1>8. \A i, j \in 1 .. n : t[i] = t[j] => i = j
  <2> SUFFICES ASSUME NEW i \in 1 .. n, NEW j \in 1 .. n, t[i] = t[j] PROVE i = j
    OBVIOUS
  <2>1. at(i) = at(j)
    <3>1. c[at(i)] = c[at(j)] /\ at(i) \in 1 .. n /\ at(j) \in 1 .. n
      BY <1>2, <1>4
    <3> QED BY <1>1, <3>1, Zenon
  <2> QED BY <1>4, <2>1
<1> QED BY <1>1, <1>2, <1>5, <1>7, <1>8 DEF Cyclic, t

(* What the abstract specification reads from a member of a ring is its    *)
(* ring.                                                                   *)
LEMMA FromCyclic ==
  ASSUME NEW ptr, NEW S, NEW c, NEW y, Cyclic(ptr, S, c, y), NEW x \in Range(c)
  PROVE  Cyclic(ptr, S, Abstract!From(c, x), x)
<1> DEFINE p == CHOOSE q \in DOMAIN c : c[q] = x
<1>1. p \in DOMAIN c /\ c[p] = x
  BY DEF Range
<1>2. DOMAIN c = 1 .. Len(c)
  BY DEF Cyclic
<1>3. Abstract!From(c, x) = Turned(c, p)
  BY DEF Abstract!From, Turned
<1> HIDE DEF p
<1>4. p \in 1 .. Len(c)
  BY <1>1, <1>2
<1>5. Cyclic(ptr, S, Turned(c, p), c[p])
  BY <1>4, TurnedCyclic
<1> QED BY <1>1, <1>3, <1>5

(* A piece of a ring: each node once, each the next of the one before.     *)
Chain(ptr, S, a) ==
    /\ a \in Seq(S) /\ Len(a) > 0
    /\ \A i \in 1 .. Len(a) : i # Len(a) => ptr[a[i]] = a[i + 1]
    /\ \A i, j \in 1 .. Len(a) : a[i] = a[j] => i = j

(* Two chains that lead to each other form a ring.                         *)
LEMMA JoinedCyclic ==
  ASSUME NEW ptr, NEW S, NEW a, NEW b, Chain(ptr, S, a), Chain(ptr, S, b),
         \A i \in 1 .. Len(a), j \in 1 .. Len(b) : a[i] # b[j],
         ptr[a[Len(a)]] = b[1], ptr[b[Len(b)]] = a[1]
  PROVE  /\ Cyclic(ptr, S, a \o b, a[1])
         /\ Range(a \o b) = {a[i] : i \in 1 .. Len(a)} \cup {b[i] : i \in 1 .. Len(b)}
<1> DEFINE c == a \o b
           m == Len(a)
           n == Len(b)
<1>1. a \in Seq(S) /\ b \in Seq(S)
  BY DEF Chain
<1>2. /\ c \in Seq(S) /\ Len(c) = m + n
      /\ \A i \in 1 .. (m + n) : c[i] = IF i <= m THEN a[i] ELSE b[i - m]
  BY <1>1, ConcatProperties
<1>3. /\ m \in Nat /\ n \in Nat /\ m > 0 /\ n > 0
      /\ \A i \in 1 .. m : i # m => ptr[a[i]] = a[i + 1]
      /\ \A i, j \in 1 .. m : a[i] = a[j] => i = j
      /\ \A i \in 1 .. n : i # n => ptr[b[i]] = b[i + 1]
      /\ \A i, j \in 1 .. n : b[i] = b[j] => i = j
      /\ \A i \in 1 .. m, j \in 1 .. n : a[i] # b[j]
      /\ ptr[a[m]] = b[1] /\ ptr[b[n]] = a[1]
  BY DEF Chain
<1>4. DOMAIN c = 1 .. (m + n)
  BY <1>2
<1> HIDE DEF c, m, n
<1>5. /\ \A i \in 1 .. m : i \in 1 .. (m + n) /\ c[i] = a[i]
      /\ \A j \in 1 .. n : m + j \in 1 .. (m + n) /\ c[m + j] = b[j]
  <2>1. \A i \in 1 .. m : i \in 1 .. (m + n) /\ i <= m
    BY <1>3
  <2>2. \A j \in 1 .. n : m + j \in 1 .. (m + n) /\ ~(m + j <= m) /\ (m + j) - m = j
    BY <1>3
  <2> QED BY <1>2, <2>1, <2>2
<1>6. \A k \in 1 .. (m + n) : k \in 1 .. m \/ \E j \in 1 .. n : k = m + j
  <2> SUFFICES ASSUME NEW k \in 1 .. (m + n), k \notin 1 .. m
               PROVE  \E j \in 1 .. n : k = m + j
    OBVIOUS
  <2>1. k - m \in 1 .. n /\ k = m + (k - m)
    BY <1>3
  <2> QED BY <2>1
<1>7. c[1] = a[1] /\ 1 \in 1 .. m /\ m + n \in Nat \ {0}
  BY <1>3, <1>5
<1>8. ASSUME NEW k \in 1 .. (m + n)
      PROVE  ptr[c[k]] = IF k = m + n THEN a[1] ELSE c[k + 1]
  <2>1. CASE k \in 1 .. m /\ k # m
    <3>1. k + 1 \in 1 .. m /\ k # m + n
      BY <1>3, <2>1
    <3> QED BY <1>3, <1>5, <2>1, <3>1
  <2>2. CASE k = m
    <3>1. 1 \in 1 .. n /\ m \in 1 .. m /\ k # m + n /\ k + 1 = m + 1
      BY <1>3, <2>2
    <3> QED BY <1>3, <1>5, <2>2, <3>1
  <2>3. CASE k \notin 1 .. m
    <3>1. PICK j \in 1 .. n : k = m + j
      BY <1>6, <2>3
    <3>2. CASE j = n
      BY <1>3, <1>5, <3>1, <3>2
    <3>3. CASE j # n
      <4>1. j + 1 \in 1 .. n /\ k # m + n /\ k + 1 = m + (j + 1)
        BY <1>3, <3>1, <3>3
      <4>2. c[k] = b[j] /\ c[k + 1] = b[j + 1]
        <5>1. c[m + j] = b[j] /\ c[m + (j + 1)] = b[j + 1]
          BY <1>5, <4>1
        <5> QED BY <3>1, <4>1, <5>1
      <4> QED BY <1>3, <3>3, <4>1, <4>2
    <3> QED BY <3>2, <3>3
  <2> QED BY <2>1, <2>2, <2>3
<1>9. ASSUME NEW k \in 1 .. (m + n), NEW l \in 1 .. (m + n), c[k] = c[l] PROVE k = l
  <2>1. CASE k \in 1 .. m /\ l \in 1 .. m
    BY <1>3, <1>5, <1>9, <2>1
  <2>2. CASE k \in 1 .. m /\ l \notin 1 .. m
    <3>1. PICK j \in 1 .. n : l = m + j
      BY <1>6, <2>2
    <3>2. c[l] = b[j] /\ c[k] = a[k]
      BY <1>5, <2>2, <3>1
    <3>3. a[k] # b[j]
      BY <1>3, <2>2
    <3> QED BY <1>9, <3>2, <3>3
  <2>3. CASE k \notin 1 .. m /\ l \in 1 .. m
    <3>1. PICK j \in 1 .. n : k = m + j
      BY <1>6, <2>3
    <3>2. c[k] = b[j] /\ c[l] = a[l]
      BY <1>5, <2>3, <3>1
    <3>3. a[l] # b[j]
      BY <1>3, <2>3
    <3> QED BY <1>9, <3>2, <3>3
  <2>4. CASE k \notin 1 .. m /\ l \notin 1 .. m
    <3>1. PICK j \in 1 .. n : k = m + j
      BY <1>6, <2>4
    <3>2. PICK i \in 1 .. n : l = m + i
      BY <1>6, <2>4
    <3>3. b[j] = b[i]
      BY <1>5, <1>9, <3>1, <3>2
    <3>4. j = i
      BY <1>3, <3>3
    <3> QED BY <3>1, <3>2, <3>4
  <2> QED BY <2>1, <2>2, <2>3, <2>4
<1>10. Cyclic(ptr, S, c, a[1])
  BY <1>2, <1>7, <1>8, <1>9 DEF Cyclic
<1>11. Range(c) = {a[i] : i \in 1 .. m} \cup {b[i] : i \in 1 .. n}
  BY <1>4, <1>5, <1>6 DEF Range
<1> QED BY <1>10, <1>11 DEF c, m, n

----------------------------------------------------------------------------
(* The refinement.                                                         *)

Shaped == \A x \in Live : Cyclic(next, Live, Ring(x), x)

(* Every ring, as RingShape says of one.                                   *)
LEMMA AllShaped == TypeOK /\ Undoes => Shaped
BY RingShape DEF Shaped

(* A step forms the ring c of the nodes of K that stay live and moves no   *)
(* pointer of another node.  K is a set of whole rings and of nodes in     *)
(* none.                                                                   *)
Reforms(K, c) ==
    /\ \A x \in Live : x \notin K => next[x] \notin K /\ next'[x] = next[x]
    /\ \A x \in All : x \notin K => (x \in Live' <=> x \in Live)
    /\ c # << >> => \E y : Cyclic(next', Live', c, y)
    /\ \A x \in All : x \in Range(c) <=> x \in Live' /\ x \in K

(* Such a step changes no ring but those of K.                             *)
LEMMA ReformedRings ==
  ASSUME IInv, IInv', NEW K, NEW c, Reforms(K, c), NEW x \in All
  PROVE  RingOf(x)' = IF x \in Range(c) THEN Abstract!From(c, x)
                      ELSE IF x \in K THEN << >> ELSE RingOf(x)
<1>1. Shaped /\ Live \subseteq All
  BY AllShaped, LiveNodes DEF IInv
<1>2. Shaped'
  <2>1. (TypeOK /\ Undoes)'
    BY DEF IInv
  <2> QED BY <2>1, AllShaped, PTL
<1>3. /\ RingOf(x)' = IF x \in Live' THEN Ring(x)' ELSE << >>
      /\ RingOf(x) = IF x \in Live THEN Ring(x) ELSE << >>
  BY DEF RingOf, Live
<1>4. x \in Live' => Cyclic(next', Live', Ring(x)', x)
  BY <1>2 DEF Shaped, Cyclic
<1>5. CASE x \in Range(c)
  <2>1. x \in Live'
    BY <1>5 DEF Reforms
  <2>2. c # << >>
    BY <1>5 DEF Range
  <2>3. PICK y : Cyclic(next', Live', c, y)
    BY <2>2 DEF Reforms
  <2>4. Cyclic(next', Live', Abstract!From(c, x), x)
    BY <1>5, <2>3, FromCyclic
  <2>5. Ring(x)' = Abstract!From(c, x)
    BY <1>4, <2>1, <2>4, OneRing
  <2> QED BY <1>3, <1>5, <2>1, <2>5
<1>6. CASE x \in K /\ x \notin Range(c)
  BY <1>3, <1>6 DEF Reforms
<1>7. CASE x \notin K /\ x \notin Live
  BY <1>3, <1>7 DEF Reforms
<1>8. CASE x \notin K /\ x \in Live
  <2> DEFINE r == Ring(x)
             n == Len(r)
             B == {p \in 1 .. n : r[p] \in K}
  <2>1. Cyclic(next, Live, r, x)
    BY <1>1, <1>8 DEF Shaped
  <2> HIDE DEF r
  <2>2. /\ n \in Nat \ {0} /\ r[1] = x /\ \A p \in 1 .. n : r[p] \in Live
        /\ \A p \in 1 .. n : next[r[p]] = IF p = n THEN x ELSE r[p + 1]
    BY <2>1 DEF Cyclic
  <2>3. r \in Seq(Live) /\ \A p, q \in 1 .. n : r[p] = r[q] => p = q
    BY <2>1 DEF Cyclic
  <2> HIDE DEF n
  <2>4. B = {}
    <3> SUFFICES ASSUME B # {} PROVE FALSE
      OBVIOUS
    <3>1. PICK k \in B : \A j \in B : k <= j
      <4>1. B \subseteq Nat
        BY <2>2
      <4> QED BY <4>1, LeastNat, Zenon
    <3>2. k # 1
      BY <1>8, <2>2, <3>1
    <3> DEFINE q == k - 1
    <3>3. k \in 1 .. n /\ q \in 1 .. n /\ q # n /\ q + 1 = k /\ ~(k <= q)
      BY <2>2, <3>1, <3>2
    <3> HIDE DEF q
    <3>4. r[q] \notin K /\ r[q] \in Live /\ next[r[q]] = r[k]
      BY <2>2, <3>1, <3>3
    <3> QED BY <3>1, <3>4 DEF Reforms
  <2>5. \A p \in 1 .. n : r[p] \notin K /\ next'[r[p]] = next[r[p]] /\ r[p] \in Live'
    BY <1>1, <2>2, <2>4 DEF Reforms
  <2>6. r \in Seq(Live')
    <3>1. Len(r) = n
      BY DEF n
    <3>2. \A p \in 1 .. Len(r) : r[p] \in Live'
      BY <2>5, <3>1
    <3> QED BY <2>3, <3>2, SeqDef
  <2>7. Cyclic(next', Live', r, x)
    BY <2>2, <2>3, <2>5, <2>6 DEF Cyclic, n
  <2>8. x \in Live'
    BY <1>8 DEF Reforms
  <2>9. Ring(x)' = r
    BY <1>4, <2>7, <2>8, OneRing
  <2>10. x \notin Range(c)
    BY <1>8 DEF Reforms
  <2> QED BY <1>3, <1>8, <2>8, <2>9, <2>10 DEF r
<1> QED BY <1>5, <1>6, <1>7, <1>8

(* The rings the abstract specification sees.                              *)
Seen == [x \in All |-> RingOf(x)]

(* A ring as the pointers give it, from x on and back to x.                *)
LEMMA RingFacts ==
  ASSUME TypeOK, Undoes, NEW x \in Live, NEW r, r = Ring(x)
  PROVE  /\ Cyclic(next, Live, r, x) /\ Chain(next, Live, r)
         /\ Members(x) = {r[i] : i \in 1 .. Len(r)}
         /\ Members(x) = Range(r) /\ r[Len(r)] = prev[x]
<1>1. Cyclic(next, Live, r, x)
  BY RingShape
<1>2. Members(x) = Range(r) /\ DOMAIN r = 1 .. Len(r)
  BY <1>1 DEF Members, Cyclic
<1>3. Chain(next, Live, r)
  BY <1>1 DEF Cyclic, Chain
<1>4. r[Len(r)] \in Live /\ next[r[Len(r)]] = x
  BY <1>1 DEF Cyclic
<1>5. r[Len(r)] = prev[x]
  BY <1>4 DEF Undoes
<1> QED BY <1>1, <1>2, <1>3, <1>5 DEF Range

(* No pointer leads into a ring from outside.                              *)
LEMMA OutsideRing ==
  ASSUME TypeOK, Undoes, NEW x \in Live, NEW y \in Live, y \notin Members(x)
  PROVE  next[y] \notin Members(x)
<1>1. next[y] \in Members(x) => prev[next[y]] \in Members(x)
  BY MembersClosed
<1> QED BY <1>1 DEF Undoes

(* A splice makes one ring of two.                                         *)
LEMMA SpliceReforms ==
  ASSUME IInv, IInv', NEW dst \in Live, NEW src \in linked, Apart(dst, src),
         Spliced(dst, src)
  PROVE  \E K : Reforms(K, Ring(dst) \o Ring(src)) /\ K \subseteq Range(Ring(dst) \o Ring(src))
<1>1. TypeOK /\ Undoes
  BY DEF IInv
<1>2. PICK a : a = Ring(dst)
  OBVIOUS
<1>3. PICK b : b = Ring(src)
  OBVIOUS
<1> DEFINE p == prev[dst]
           q == prev[src]
           A == Members(dst)
           B == Members(src)
           K == A \cup B
<1>4. /\ src \in Live /\ p # q /\ src # dst /\ p \notin B /\ q \in B /\ A \cap B = {}
      /\ Live \subseteq All
  BY <1>1, ApartRings, LiveNodes DEF Apart
<1>5. /\ Cyclic(next, Live, a, dst) /\ Chain(next, Live, a) /\ A = {a[i] : i \in 1 .. Len(a)}
      /\ a[Len(a)] = p
  BY <1>1, <1>2, RingFacts
<1>6. /\ Cyclic(next, Live, b, src) /\ Chain(next, Live, b) /\ B = {b[i] : i \in 1 .. Len(b)}
      /\ b[Len(b)] = q
  BY <1>1, <1>3, <1>4, RingFacts
<1>7. Live' = Live
  BY DEF Spliced, Live
<1>8. p \in Live /\ q \in Live
  BY <1>1, <1>4 DEF Undoes
<1>9. /\ next'[p] = src /\ next'[q] = dst
      /\ \A x \in Live : x # p /\ x # q => next'[x] = next[x]
  BY <1>4, <1>8 DEF Spliced
<1>10. \A x \in Live : (x \notin A => next[x] \notin A) /\ (x \notin B => next[x] \notin B)
  BY <1>1, <1>4, OutsideRing
<1> HIDE DEF p, q, A, B
<1>11. /\ a \in Seq(Live) /\ Len(a) \in Nat \ {0} /\ a[1] = dst
       /\ \A i \in 1 .. Len(a) : a[i] \in Live
       /\ \A i \in 1 .. Len(a) : i # Len(a) => next[a[i]] = a[i + 1]
       /\ \A i, j \in 1 .. Len(a) : a[i] = a[j] => i = j
  BY <1>5 DEF Cyclic
<1>12. /\ b \in Seq(Live) /\ Len(b) \in Nat \ {0} /\ b[1] = src
       /\ \A i \in 1 .. Len(b) : b[i] \in Live
       /\ \A i \in 1 .. Len(b) : i # Len(b) => next[b[i]] = b[i + 1]
       /\ \A i, j \in 1 .. Len(b) : b[i] = b[j] => i = j
  BY <1>6 DEF Cyclic
<1>13. Chain(next', Live', a)
  <2>1. \A i \in 1 .. Len(a) : i # Len(a) => next'[a[i]] = a[i + 1]
    <3> SUFFICES ASSUME NEW i \in 1 .. Len(a), i # Len(a) PROVE next'[a[i]] = a[i + 1]
      OBVIOUS
    <3>1. Len(a) \in 1 .. Len(a)
      BY <1>11
    <3>2. a[i] # p
      BY <1>5, <1>11, <3>1
    <3>3. a[i] # q
      BY <1>4, <1>5
    <3> QED BY <1>9, <1>11, <3>2, <3>3
  <2> QED BY <1>7, <1>11, <2>1 DEF Chain
<1>14. Chain(next', Live', b)
  <2>1. \A i \in 1 .. Len(b) : i # Len(b) => next'[b[i]] = b[i + 1]
    <3> SUFFICES ASSUME NEW i \in 1 .. Len(b), i # Len(b) PROVE next'[b[i]] = b[i + 1]
      OBVIOUS
    <3>1. Len(b) \in 1 .. Len(b)
      BY <1>12
    <3>2. b[i] # q
      BY <1>6, <1>12, <3>1
    <3>3. b[i] # p
      BY <1>4, <1>6
    <3> QED BY <1>9, <1>12, <3>2, <3>3
  <2> QED BY <1>7, <1>12, <2>1 DEF Chain
<1>15. \A i \in 1 .. Len(a), j \in 1 .. Len(b) : a[i] # b[j]
  BY <1>4, <1>5, <1>6
<1>16. next'[a[Len(a)]] = b[1] /\ next'[b[Len(b)]] = a[1]
  BY <1>5, <1>6, <1>9, <1>11, <1>12
<1>17. Cyclic(next', Live', a \o b, a[1]) /\ Range(a \o b) = K
  BY <1>5, <1>6, <1>13, <1>14, <1>15, <1>16, JoinedCyclic
<1>18. \A x \in Live : x \notin K => next[x] \notin K /\ next'[x] = next[x]
  <2>1. p \in A
    <3>1. Len(a) \in 1 .. Len(a)
      BY <1>11
    <3> QED BY <1>5, <3>1
  <2> QED BY <1>4, <1>9, <1>10, <2>1
<1>19. K \subseteq Live'
  BY <1>5, <1>6, <1>7, <1>11, <1>12
<1>20. Reforms(K, a \o b)
  BY <1>7, <1>17, <1>18, <1>19 DEF Reforms
<1> QED BY <1>2, <1>3, <1>17, <1>20

(* ll_emplace_back puts a node before dst.                                 *)
LEMMA EmplaceReforms ==
  ASSUME IInv, IInv', NEW dst \in All, NEW n \in Node, EmplaceBack(dst, n)
  PROVE  \E K : Reforms(K, Append(Ring(dst), n)) /\ K \subseteq Range(Append(Ring(dst), n))
<1>1. TypeOK /\ Undoes
  BY DEF IInv
<1>2. /\ n \notin linked /\ dst \in Live /\ linked' = linked \cup {n}
      /\ next' = [next EXCEPT ![prev[dst]] = n, ![n] = dst]
  BY DEF EmplaceBack, Live
<1>3. PICK a : a = Ring(dst)
  OBVIOUS
<1> DEFINE p == prev[dst]
           A == Members(dst)
           K == A \cup {n}
           b == <<n>>
<1>4. n \in All /\ n \notin Live /\ Live \subseteq All /\ Live' = Live \cup {n}
  BY <1>1, <1>2, LiveNodes DEF Live
<1>5. /\ Cyclic(next, Live, a, dst) /\ A = {a[i] : i \in 1 .. Len(a)} /\ a[Len(a)] = p
  BY <1>1, <1>2, <1>3, RingFacts
<1>6. p \in Live /\ p # n
  BY <1>1, <1>2, <1>4 DEF Undoes
<1>7. /\ next'[p] = n /\ next'[n] = dst
      /\ \A x \in Live : x # p => next'[x] = next[x]
  BY <1>1, <1>2, <1>4, <1>6 DEF TypeOK
<1>8. \A x \in Live : x \notin A => next[x] \notin A
  BY <1>1, <1>2, OutsideRing
<1>9. \A x \in Live : next[x] \in Live
  BY <1>1 DEF Undoes
<1> HIDE DEF p, A
<1>10. /\ a \in Seq(Live) /\ Len(a) \in Nat \ {0} /\ a[1] = dst
       /\ \A i \in 1 .. Len(a) : a[i] \in Live
       /\ \A i \in 1 .. Len(a) : i # Len(a) => next[a[i]] = a[i + 1]
       /\ \A i, j \in 1 .. Len(a) : a[i] = a[j] => i = j
  BY <1>5 DEF Cyclic
<1>11. Chain(next', Live', a)
  <2>1. \A i \in 1 .. Len(a) : i # Len(a) => next'[a[i]] = a[i + 1]
    <3> SUFFICES ASSUME NEW i \in 1 .. Len(a), i # Len(a) PROVE next'[a[i]] = a[i + 1]
      OBVIOUS
    <3>1. Len(a) \in 1 .. Len(a)
      BY <1>10
    <3>2. a[i] # p
      BY <1>5, <1>10, <3>1
    <3> QED BY <1>7, <1>10, <3>2
  <2>2. a \in Seq(Live')
    BY <1>4, <1>10, SeqMonotonic
  <2> QED BY <1>10, <2>1, <2>2 DEF Chain
<1>12. Len(b) = 1 /\ b[1] = n /\ b \in Seq(Live')
  BY <1>4
<1>13. Append(a, n) = a \o b
  BY <1>4, <1>10, <1>12, AppendIsConcat
<1> HIDE DEF b
<1>14. Chain(next', Live', b)
  BY <1>12 DEF Chain
<1>15. \A i \in 1 .. Len(a), j \in 1 .. Len(b) : a[i] # b[j]
  BY <1>4, <1>10, <1>12
<1>16. next'[a[Len(a)]] = b[1] /\ next'[b[Len(b)]] = a[1]
  BY <1>5, <1>7, <1>10, <1>12
<1>17. Cyclic(next', Live', a \o b, a[1]) /\ Range(a \o b) = K
  <2>1. {b[i] : i \in 1 .. Len(b)} = {n}
    BY <1>12
  <2>2. /\ Cyclic(next', Live', a \o b, a[1])
        /\ Range(a \o b) = {a[i] : i \in 1 .. Len(a)} \cup {b[i] : i \in 1 .. Len(b)}
    BY ONLY <1>11, <1>14, <1>15, <1>16, JoinedCyclic
  <2> QED BY <1>5, <2>1, <2>2
<1>18. \A x \in Live : x \notin K => next[x] \notin K /\ next'[x] = next[x]
  <2>1. p \in A
    <3>1. Len(a) \in 1 .. Len(a)
      BY <1>10
    <3> QED BY <1>5, <3>1
  <2> QED BY <1>4, <1>7, <1>8, <1>9, <2>1
<1>19. K \subseteq Live'
  BY <1>4, <1>5, <1>10
<1>20. Reforms(K, a \o b)
  BY <1>4, <1>17, <1>18, <1>19 DEF Reforms
<1> QED BY <1>3, <1>13, <1>17, <1>20

(* ll_remove leaves the rest of the ring.                                  *)
LEMMA UnlinkReforms ==
  ASSUME IInv, IInv', NEW n \in linked, next[n] # n, Unlink(n)
  PROVE  /\ Len(Ring(n)) > 1 /\ Ring(n)[2] = next[n]
         /\ \E K : /\ Reforms(K, Tail(Ring(n))) /\ n \in K
                   /\ K \ {n} = Range(Tail(Ring(n)))
<1>1. TypeOK /\ Undoes
  BY DEF IInv
<1>2. linked' = linked \ {n} /\ next' = [next EXCEPT ![prev[n]] = next[n]]
  BY DEF Unlink
<1>3. PICK r : r = Ring(n)
  OBVIOUS
<1> DEFINE p == prev[n]
           s == next[n]
           K == Members(n)
           m == Len(r)
           c == Tail(r)
<1>4. n \in All /\ n \in Live /\ Live \subseteq All /\ Live' = Live \ {n}
  BY <1>1, <1>2, LiveNodes DEF Live
<1>5. /\ Cyclic(next, Live, r, n) /\ K = {r[i] : i \in 1 .. m} /\ r[m] = p
  BY <1>1, <1>3, <1>4, RingFacts
<1>6. p \in Live
  BY <1>1, <1>4 DEF Undoes
<1>7. next'[p] = s /\ \A x \in Live : x # p => next'[x] = next[x]
  BY <1>1, <1>2, <1>4, <1>6 DEF TypeOK
<1>8. \A x \in Live : x \notin K => next[x] \notin K
  BY <1>1, <1>4, OutsideRing
<1>9. /\ r \in Seq(Live) /\ m \in Nat \ {0} /\ r[1] = n
      /\ \A i \in 1 .. m : r[i] \in Live
      /\ \A i \in 1 .. m : next[r[i]] = IF i = m THEN n ELSE r[i + 1]
      /\ \A i, j \in 1 .. m : r[i] = r[j] => i = j
  BY <1>5 DEF Cyclic
<1>10. m # 1
  BY <1>9
<1>11. m > 1 /\ s = r[2] /\ r # << >>
  <2>1. 1 \in 1 .. m /\ 1 # m /\ m > 1
    BY <1>9, <1>10
  <2> QED BY <1>9, <2>1
<1>12. /\ c \in Seq(Live) /\ Len(c) = m - 1
       /\ \A i \in 1 .. (m - 1) : c[i] = r[i + 1]
  BY <1>9, <1>11, HeadTailProperties
<1> HIDE DEF p, s, K, m, c
<1>13. /\ \A i \in 1 .. (m - 1) : i + 1 \in 1 .. m /\ i + 1 # 1
       /\ \A i \in 1 .. m : i # 1 => i - 1 \in 1 .. (m - 1) /\ (i - 1) + 1 = i
       /\ 1 \in 1 .. (m - 1) /\ 1 \in 1 .. m /\ m - 1 \in Nat \ {0} /\ m \in 1 .. m
       /\ \A i \in 1 .. (m - 1) : i # m - 1 => i + 1 \in 1 .. (m - 1) /\ i + 1 # m
       /\ (m - 1) + 1 = m
  <2>1. m \in Nat /\ m > 1
    BY <1>9, <1>11
  <2> QED BY <2>1
<1>14. \A i \in 1 .. (m - 1) : c[i] \in Live /\ c[i] # n
  BY <1>9, <1>12, <1>13
<1>15. c \in Seq(Live')
  <2>1. \A i \in 1 .. Len(c) : c[i] \in Live'
    BY <1>4, <1>12, <1>14
  <2> QED BY <1>12, <2>1, SeqDef
<1>16. ASSUME NEW i \in 1 .. (m - 1)
       PROVE  next'[c[i]] = IF i = m - 1 THEN s ELSE c[i + 1]
  <2>1. CASE i = m - 1
    <3>1. c[i] = p
      BY <1>5, <1>12, <1>13, <2>1
    <3> QED BY <1>7, <2>1, <3>1
  <2>2. CASE i # m - 1
    <3>1. c[i] = r[i + 1] /\ i + 1 \in 1 .. m /\ i + 1 # m /\ i + 1 \in 1 .. (m - 1)
      BY <1>12, <1>13, <2>2
    <3>2. c[i + 1] = r[(i + 1) + 1]
      BY <1>12, <3>1
    <3>3. r[i + 1] # p
      BY <1>5, <1>9, <1>13, <3>1
    <3>4. next'[r[i + 1]] = next[r[i + 1]]
      BY <1>7, <1>9, <3>1, <3>3
    <3> QED BY <1>9, <2>2, <3>1, <3>2, <3>4
  <2> QED BY <2>1, <2>2
<1>17. ASSUME NEW i \in 1 .. (m - 1), NEW j \in 1 .. (m - 1), c[i] = c[j] PROVE i = j
  <2>1. r[i + 1] = r[j + 1] /\ i + 1 \in 1 .. m /\ j + 1 \in 1 .. m
    BY <1>12, <1>13, <1>17
  <2>2. i + 1 = j + 1
    BY <1>9, <2>1, Zenon
  <2> QED BY <1>9, <2>2
<1>18. c[1] = s
  BY <1>11, <1>12, <1>13
<1>19. Cyclic(next', Live', c, s)
  BY <1>12, <1>13, <1>15, <1>16, <1>17, <1>18 DEF Cyclic
<1>20. Range(c) = K \ {n}
  <2>1. Range(c) = {c[i] : i \in 1 .. (m - 1)}
    BY <1>12 DEF Range
  <2>2. \A y \in K : y # n => \E i \in 1 .. (m - 1) : y = c[i]
    <3> SUFFICES ASSUME NEW y \in K, y # n PROVE \E i \in 1 .. (m - 1) : y = c[i]
      OBVIOUS
    <3>1. PICK i \in 1 .. m : y = r[i]
      BY <1>5
    <3>2. i # 1
      BY <1>9, <3>1
    <3>3. i - 1 \in 1 .. (m - 1) /\ c[i - 1] = r[(i - 1) + 1] /\ (i - 1) + 1 = i
      BY <1>12, <1>13, <3>2
    <3> QED BY <3>1, <3>3
  <2>3. \A i \in 1 .. (m - 1) : c[i] \in K /\ c[i] # n
    BY <1>5, <1>12, <1>13, <1>14
  <2> QED BY <2>1, <2>2, <2>3
<1>21. \A x \in Live : x \notin K => next[x] \notin K /\ next'[x] = next[x]
  <2>1. p \in K
    BY <1>5, <1>13
  <2> QED BY <1>7, <1>8, <2>1
<1>22. n \in K /\ K \subseteq Live
  BY <1>5, <1>9, <1>13
<1>23. Reforms(K, c)
  BY <1>4, <1>19, <1>20, <1>21, <1>22 DEF Reforms
<1> QED BY <1>3, <1>11, <1>20, <1>22, <1>23 DEF c, m, s

(* ll_init makes a ring of one.                                            *)
LEMMA InitReforms ==
  ASSUME IInv, NEW n \in Node, InitNode(n)
  PROVE  \E K : Reforms(K, <<n>>) /\ K \subseteq Range(<<n>>)
<1>1. TypeOK /\ Undoes
  BY DEF IInv
<1>2. n \notin linked /\ linked' = linked \cup {n} /\ next' = [next EXCEPT ![n] = n]
  BY DEF InitNode
<1>3. n \in All /\ n \notin Live /\ Live \subseteq All /\ Live' = Live \cup {n}
  BY <1>1, <1>2, LiveNodes DEF Live
<1>4. next'[n] = n /\ \A x \in Live : next'[x] = next[x] /\ next[x] \in Live
  BY <1>1, <1>2, <1>3 DEF TypeOK, Undoes
<1> DEFINE c == <<n>>
<1>5. c \in Seq(Live') /\ Len(c) = 1 /\ c[1] = n /\ Range(c) = {n}
  BY <1>3 DEF Range
<1> HIDE DEF c
<1>6. Cyclic(next', Live', c, n)
  BY <1>4, <1>5 DEF Cyclic
<1>7. Reforms({n}, c)
  BY <1>3, <1>4, <1>5, <1>6 DEF Reforms
<1> QED BY <1>5, <1>7 DEF c

(* The abstract rings after a step that forms one.                         *)
LEMMA SeenBecomes ==
  ASSUME IInv, IInv', NEW K, NEW c, Reforms(K, c), K \subseteq Range(c)
  PROVE  Seen' = Abstract!Becomes(c)
<1>1. \A x \in All : RingOf(x)' = IF x \in Range(c) THEN Abstract!From(c, x) ELSE RingOf(x)
  BY ReformedRings
<1> QED BY <1>1 DEF Seen, Abstract!Becomes, Range, Abstract!Range

(* They stay as they are when no pointer is moved.                         *)
LEMMA SeenStays ==
  ASSUME IInv, IInv', next' = next, linked' = linked
  PROVE  Seen' = Seen
<1>1. Reforms({}, << >>)
  BY DEF Reforms, Range, Live
<1>2. \A x \in All : RingOf(x)' = RingOf(x)
  BY <1>1, ReformedRings DEF Range
<1> QED BY <1>2 DEF Seen

(* What the abstract specification knows of a node that is live.           *)
LEMMA SeenLive ==
  ASSUME IInv, NEW x \in Live
  PROVE  x \in All /\ Seen[x] = Ring(x) /\ Ring(x) # << >>
<1>1. TypeOK /\ Undoes
  BY DEF IInv
<1>2. x \in All
  BY <1>1, LiveNodes
<1>3. Cyclic(next, Live, Ring(x), x)
  BY <1>1, RingShape
<1>4. Ring(x) # << >>
  BY <1>3 DEF Cyclic
<1> QED BY <1>2, <1>4 DEF Seen, RingOf, Live

(* Every step is one of the abstract specification or changes nothing it   *)
(* sees.                                                                   *)
Mapped == [Abstract!Next]_<<Seen, front>>

(* ll_init.                                                                *)
LEMMA MapInitNode ==
  ASSUME IInv, IInv', NEW n \in Node, InitNode(n)
  PROVE  Mapped
<1>1. PICK K : Reforms(K, <<n>>) /\ K \subseteq Range(<<n>>)
  BY InitReforms
<1>2. Seen' = Abstract!Becomes(<<n>>)
  BY <1>1, SeenBecomes
<1>3. Seen[n] = << >>
  BY ListAssumption DEF InitNode, Seen, RingOf, All
<1>4. front' = front
  BY DEF InitNode
<1>5. Abstract!Single(n)
  BY <1>2, <1>3, <1>4 DEF Abstract!Single, Seen
<1> QED BY <1>5 DEF Mapped, Abstract!Next

(* ll_emplace_back.                                                        *)
LEMMA MapEmplaceBack ==
  ASSUME IInv, IInv', NEW n \in Node, NEW dst \in All, EmplaceBack(dst, n)
  PROVE  Mapped
<1>1. PICK K : Reforms(K, Append(Ring(dst), n)) /\ K \subseteq Range(Append(Ring(dst), n))
  BY EmplaceReforms
<1>2. Seen' = Abstract!Becomes(Append(Ring(dst), n))
  BY <1>1, SeenBecomes
<1>3. Seen[n] = << >>
  BY ListAssumption DEF EmplaceBack, Seen, RingOf, All
<1>4. front' = front /\ dst \in Live
  BY DEF EmplaceBack, Live
<1>5. Seen[dst] = Ring(dst) /\ Ring(dst) # << >>
  BY <1>4, SeenLive
<1>6. Abstract!Emplace(dst, n)
  BY <1>2, <1>3, <1>4, <1>5 DEF Abstract!Emplace, Seen
<1> QED BY <1>6 DEF Mapped, Abstract!Next, All

(* A splice.                                                               *)
LEMMA MapSpliced ==
  ASSUME IInv, IInv', NEW dst \in Live, NEW src \in linked, Apart(dst, src),
         Spliced(dst, src)
  PROVE  Abstract!Join(dst, src)
<1>1. PICK K : Reforms(K, Ring(dst) \o Ring(src)) /\ K \subseteq Range(Ring(dst) \o Ring(src))
  BY SpliceReforms
<1>2. Seen' = Abstract!Becomes(Ring(dst) \o Ring(src))
  BY <1>1, SeenBecomes
<1>3. src \in Live
  BY DEF Live
<1>4. Seen[dst] = Ring(dst) /\ Ring(dst) # << >> /\ Seen[src] = Ring(src) /\ Ring(src) # << >>
  BY <1>3, SeenLive
<1> QED BY <1>2, <1>4 DEF Abstract!Join, Seen

(* ll_push_back.                                                           *)
LEMMA MapPushBack ==
  ASSUME IInv, IInv', NEW src \in Node, NEW dst \in All, PushBack(dst, src)
  PROVE  Mapped
<1>1. /\ dst \in Live /\ src \in linked /\ Apart(dst, src) /\ front' = front
      /\ linked' = linked
  BY DEF PushBack, Live
<1>2. Spliced(dst, src)
  BY BackSplices DEF IInv
<1>3. Abstract!Join(dst, src)
  BY <1>1, <1>2, MapSpliced
<1>4. Abstract!PushBack(dst, src)
  BY <1>1, <1>3 DEF Abstract!PushBack
<1> QED BY <1>4 DEF Mapped, Abstract!Next, All

(* ll_push_front.                                                          *)
LEMMA MapPushFront ==
  ASSUME IInv, IInv', NEW src \in Node, PushFront(src)
  PROVE  Mapped
<1>1. /\ front # None /\ front \in Live /\ src \in linked /\ Apart(front, src) /\ front' = src
  BY DEF PushFront, IInv, TypeOK, Live
<1>2. Spliced(front, src)
  BY FrontSplices DEF IInv
<1>3. Abstract!Join(front, src)
  BY <1>1, <1>2, MapSpliced
<1>4. Abstract!PushFront(src)
  BY <1>1, <1>3 DEF Abstract!PushFront
<1> QED BY <1>4 DEF Mapped, Abstract!Next

(* ll_remove, with front kept in the list.                                 *)
LEMMA MapUnlink ==
  ASSUME IInv, IInv', NEW n \in linked, Unlink(n),
         front' = IF front = n THEN next[n] ELSE front
  PROVE  Mapped
<1>1. CASE next[n] = n
  <2>1. next' = next /\ linked' = linked /\ front' = front
    BY <1>1 DEF Unlink
  <2>2. Seen' = Seen
    BY <2>1, SeenStays
  <2> QED BY <2>1, <2>2 DEF Mapped
<1>2. CASE next[n] # n
  <2>1. PICK r : r = Ring(n)
    OBVIOUS
  <2>2. /\ Len(r) > 1 /\ r[2] = next[n]
        /\ \E K : Reforms(K, Tail(r)) /\ n \in K /\ K \ {n} = Range(Tail(r))
    BY <1>2, <2>1, UnlinkReforms
  <2>3. PICK K : Reforms(K, Tail(r)) /\ n \in K /\ K \ {n} = Range(Tail(r))
    BY <2>2
  <2>4. n \in Live /\ n \in Node
    BY DEF Live, IInv, TypeOK
  <2>5. Seen[n] = r /\ n \in All
    BY <2>1, <2>4, SeenLive
  <2>6. \A x \in All : RingOf(x)' = IF x = n THEN << >>
                                   ELSE IF x \in Range(Tail(r)) THEN Abstract!From(Tail(r), x)
                                   ELSE RingOf(x)
    <3>1. \A x \in All : RingOf(x)' = IF x \in Range(Tail(r)) THEN Abstract!From(Tail(r), x)
                                     ELSE IF x \in K THEN << >> ELSE RingOf(x)
      BY <2>3, ReformedRings
    <3> QED BY <2>3, <3>1
  <2>7. Seen' = [Abstract!Becomes(Tail(r)) EXCEPT ![n] = << >>]
    BY <2>5, <2>6 DEF Seen, Abstract!Becomes, Range, Abstract!Range
  <2>8. Abstract!RemoveNode(n)
    BY <2>2, <2>5, <2>7 DEF Abstract!RemoveNode, Seen
  <2> QED BY <2>4, <2>8 DEF Mapped, Abstract!Next
<1> QED BY <1>1, <1>2

(* ll_remove in body: front is in a list without a header, so it stays.    *)
LEMMA MapForeachRemove ==
  ASSUME IInv, IInv', ForeachRemove
  PROVE  Mapped
<1>1. ~Idle /\ cur # list /\ Unlink(cur) /\ front' = front
  BY DEF ForeachRemove
<1>2. Looping /\ TypeOK
  BY DEF IInv
<1>3. PICK i \in Unseen : cur = todo[i] /\ cur \in linked
  BY <1>1, AtUnseen
<1>4. PICK own \in Owners : Owned(own)
  BY DEF IInv
<1>5. own[cur] = list /\ list # None /\ (front # None => own[front] = None)
  BY <1>1, <1>3, <1>4 DEF Owned, Idle
<1>6. cur # None
  BY <1>2, <1>3, LiveNodes
<1>7. front # cur
  BY <1>5, <1>6
<1> QED BY <1>1, <1>3, <1>7, MapUnlink

(* Each call joins two whole rings, takes one node out, or changes no ring *)
(* (linkedlist.c:14-112).                                                  *)
THEOREM ListImplementsRings == Spec => ImplementsRings
<1>1. Init => Abstract!Init
  <2> SUFFICES ASSUME Init PROVE Abstract!Init
    OBVIOUS
  <2>1. IInv /\ front = None /\ linked = {}
    BY InitIInv DEF Init
  <2>2. ASSUME NEW x \in Header PROVE Ring(x) = <<x>>
    <3>1. x \in Live /\ next[x] = x
      BY DEF Init, Live, All
    <3>2. Cyclic(next, Live, Ring(x), x)
      BY <2>1, <3>1, RingShape DEF IInv
    <3> DEFINE c == <<x>>
    <3>3. c \in Seq(Live) /\ Len(c) = 1 /\ c[1] = x
      BY <3>1
    <3> HIDE DEF c
    <3>4. Cyclic(next, Live, c, x)
      BY <3>1, <3>3 DEF Cyclic
    <3>5. Ring(x) = c
      BY <3>2, <3>4, OneRing
    <3> QED BY <3>5 DEF c
  <2>3. \A x \in All : RingOf(x) = IF x \in Header THEN <<x>> ELSE << >>
    BY <2>1, <2>2 DEF RingOf
  <2> QED BY <2>1, <2>3 DEF Abstract!Init, All
<1>2. ASSUME IInv, IInv', [Next]_vars PROVE Mapped
  <2>1. CASE \E n \in Node : InitNode(n)
    BY <1>2, <2>1, MapInitNode
  <2>2. CASE \E n \in Node : Enter(n)
    <3>1. PICK n \in Node : Enter(n)
      BY <2>2
    <3>2. n \in Live /\ front' = n /\ next' = next /\ linked' = linked
      BY <3>1 DEF Enter, Live
    <3>3. Seen[n] # << >> /\ Seen' = Seen
      BY <1>2, <3>2, SeenLive, SeenStays
    <3>4. Abstract!Enter(n)
      BY <3>2, <3>3 DEF Abstract!Enter, Seen
    <3> QED BY <3>4 DEF Mapped, Abstract!Next
  <2>3. CASE \E n \in Node : RemoveNode(n)
    BY <1>2, <2>3, MapUnlink DEF RemoveNode
  <2>4. CASE \E n \in Node : PushFront(n)
    BY <1>2, <2>4, MapPushFront
  <2>5. CASE \E n \in Node : \E dst \in All : EmplaceBack(dst, n)
    BY <1>2, <2>5, MapEmplaceBack
  <2>6. CASE \E n \in Node : \E dst \in All : PushBack(dst, n)
    BY <1>2, <2>6, MapPushBack
  <2>7. CASE UNCHANGED links
    <3>1. next' = next /\ linked' = linked /\ front' = front
      BY <2>7 DEF links
    <3>2. Seen' = Seen
      BY <1>2, <3>1, SeenStays
    <3> QED BY <3>1, <3>2 DEF Mapped
  <2>8. CASE ForeachRemove
    BY <1>2, <2>8, MapForeachRemove
  <2>9. (\E h \in Header : ForeachBegin(h)) \/ ForeachStep \/ ForeachReturn \/ UNCHANGED vars
        => UNCHANGED links
    BY DEF ForeachBegin, ForeachStep, ForeachReturn, vars
  <2> QED BY <1>2, <2>1, <2>2, <2>3, <2>4, <2>5, <2>6, <2>7, <2>8, <2>9 DEF Next
<1>3. Mapped => [Abstract!Next]_<<[x \in All |-> RingOf(x)], front>>
  BY DEF Mapped, Seen
<1> QED BY <1>1, <1>2, <1>3, IInvAlways, PTL DEF Spec, ImplementsRings, Abstract!Spec

=============================================================================
