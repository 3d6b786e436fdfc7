----------------------------- MODULE VecProofs -----------------------------
(***************************************************************************)
(* Proofs about Vec, for every set of elements and every size: the         *)
(* elements stay inside the block, the block is at most four times what is *)
(* needed, vec_foreach passes them in order, and the vector implements a   *)
(* stack.                                                                  *)
(***************************************************************************)
EXTENDS Vec, SequenceTheorems, TLAPS

Inv == TypeOK /\ InBounds

(* The block that _upsize_check leaves has room for one more element and   *)
(* keeps the elements there are.                                           *)
LEMMA UpsizedRoom ==
  ASSUME Inv, NEW new \in Block(UpsizeCheck), Realloc(UpsizeCheck, new)
  PROVE  /\ UpsizeCheck \in Nat \ {0} /\ size < UpsizeCheck
         /\ \A c \in 0 .. (size - 1) : new[c] = data[c]
  BY DEF Inv, TypeOK, InBounds, UpsizeCheck, Realloc, Cells

(* A shrunk block still holds every element.                               *)
LEMMA ShrunkRoom ==
  ASSUME Inv, capacity \div 4 > size,
         NEW new \in Block(capacity \div 2), Realloc(capacity \div 2, new)
  PROVE  /\ capacity \div 2 \in Nat \ {0} /\ size <= capacity \div 2
         /\ \A c \in 0 .. (size - 1) : new[c] = data[c]
<1>1. /\ capacity \div 2 \in Nat \ {0} /\ size <= capacity \div 2
      /\ capacity \div 2 <= capacity
  BY DEF Inv, TypeOK
<1> QED BY <1>1 DEF Realloc, Cells, Inv, TypeOK

(* The vector starts within its types and its block.                       *)
LEMMA InvInit == Init => Inv
  BY DEF Init, Inv, TypeOK, InBounds

(* Every step keeps the vector within its types and its block.             *)
LEMMA InvStep ==
  ASSUME Inv, [Next]_vars
  PROVE  Inv'
<1> USE DEF Inv, TypeOK, InBounds
<1>1. ASSUME NEW e \in Elem, PushBack(e) PROVE Inv'
  <2>1. PICK new \in Block(UpsizeCheck) :
            /\ Realloc(UpsizeCheck, new)
            /\ data' = [new EXCEPT ![size] = e]
    BY <1>1 DEF PushBack
  <2>2. UpsizeCheck \in Nat \ {0} /\ size < UpsizeCheck
    BY <2>1, UpsizedRoom
  <2>3. [new EXCEPT ![size] = e] \in Block(UpsizeCheck)
    BY DEF Block
  <2>4. capacity' = UpsizeCheck /\ size' = size + 1 /\ i' = i /\ seen' = seen
    BY <1>1 DEF PushBack
  <2>5. data' \in Block(capacity')
    BY <2>1, <2>3, <2>4
  <2> HIDE DEF UpsizeCheck
  <2> QED BY <2>2, <2>4, <2>5
<1>2. ASSUME NEW e \in Elem, NEW idx \in 0 .. MaxSize, Store(idx, e) PROVE Inv'
  BY <1>2 DEF Store, Block
<1>3. CASE EmplaceBack
  <2>1. PICK new \in Block(UpsizeCheck) :
            /\ Realloc(UpsizeCheck, new)
            /\ data' = new
    BY <1>3 DEF EmplaceBack
  <2>2. UpsizeCheck \in Nat \ {0} /\ size < UpsizeCheck
    BY <2>1, UpsizedRoom
  <2> QED BY <1>3, <2>1, <2>2 DEF EmplaceBack
<1>4. CASE PopBack
  <2>1. CASE capacity \div 4 > size
    <3>1. PICK new \in Block(capacity \div 2) :
              Realloc(capacity \div 2, new) /\ data' = new
      BY <1>4, <2>1 DEF PopBack
    <3>2. capacity \div 2 \in Nat \ {0} /\ size <= capacity \div 2
      BY <2>1, <3>1, ShrunkRoom
    <3> QED BY <1>4, <2>1, <3>1, <3>2 DEF PopBack
  <2>2. CASE ~(capacity \div 4 > size)
    BY <1>4, <2>2 DEF PopBack
  <2> QED BY <2>1, <2>2
<1>5. CASE TakeData
  BY <1>5 DEF TakeData, Idle
<1>6. CASE ForeachBegin \/ ForeachReturn
  <2>1. i' \in Nat \cup {-1} /\ seen' = << >>
    BY <1>6 DEF ForeachBegin, ForeachReturn
  <2>2. seen' \in Seq(Elem)
    BY <2>1
  <2>3. capacity' = capacity /\ size' = size /\ data' = data
    BY <1>6 DEF ForeachBegin, ForeachReturn, vec
  <2> QED BY <2>1, <2>2, <2>3
<1>7. CASE ForeachVisit
  <2>1. i \in Nat /\ i < size /\ data[i] \in Elem
    BY <1>7 DEF ForeachVisit, Block, Cells
  <2>2. seen' = Append(seen, data[i]) /\ i' = i + 1
    BY <1>7 DEF ForeachVisit, At
  <2>3. seen' \in Seq(Elem)
    BY <2>1, <2>2
  <2> QED BY <1>7, <2>1, <2>2, <2>3 DEF ForeachVisit, vec
<1>8. CASE UNCHANGED vars
  BY <1>8 DEF vars, vec
<1> QED BY <1>1, <1>2, <1>3, <1>4, <1>5, <1>6, <1>7, <1>8 DEF Next

(* No sequence of calls makes the vector reach outside its block.          *)
THEOREM VecInBounds == Spec => []InBounds
<1>1. Inv => InBounds
  BY DEF Inv
<1> QED BY <1>1, InvInit, InvStep, PTL DEF Spec

----------------------------------------------------------------------------
(* The size of the block.  That capacity \div 4 <= size bounds capacity by *)
(* 4 * size needs capacity to be 1, 2 or a multiple of 4, and the next     *)
(* halving needs it again: capacity is a power of two.                     *)
PowerOfTwo == \A m, d \in Nat : capacity = m * d /\ d % 2 = 1 => d = 1

SpaceInv == Inv /\ SpaceBounded /\ PowerOfTwo

(* An odd factor of twice a number is a factor of the number.              *)
LEMMA OddFactor ==
  ASSUME NEW c \in Nat, NEW m \in Nat, NEW d \in Nat, 2 * c = m * d, d % 2 = 1
  PROVE  \E n \in Nat : c = n * d
<1>1. PICK q \in Nat : d = 2 * q + 1
  <2>1. d \div 2 \in Nat /\ d = 2 * (d \div 2) + 1
    OBVIOUS
  <2> QED BY <2>1
<1>2. m * d = 2 * (m * q) + m
  BY <1>1
<1>3. m * q \in Nat
  BY <1>1
<1>4. PICK n \in Nat : m = 2 * n
  <2>1. m = 2 * (c - m * q)
    BY <1>2, <1>3
  <2>2. c - m * q \in Nat
    BY <1>3, <2>1
  <2> QED BY <2>1, <2>2
<1>5. m * d = 2 * (n * d) /\ n * d \in Nat
  BY <1>4
<1>6. c = n * d
  BY <1>5
<1> QED BY <1>6

(* Doubling and halving keep a power of two.                               *)
LEMMA Doubled ==
  ASSUME Inv, PowerOfTwo, capacity' = 2 * capacity
  PROVE  PowerOfTwo'
<1> SUFFICES ASSUME NEW m \in Nat, NEW d \in Nat, 2 * capacity = m * d, d % 2 = 1
             PROVE  d = 1
  BY DEF PowerOfTwo
<1>1. PICK n \in Nat : capacity = n * d
  <2>1. capacity \in Nat
    BY DEF Inv, TypeOK
  <2> QED BY <2>1, OddFactor, ZenonT(30)
<1> QED BY <1>1 DEF PowerOfTwo

(* Half of a power of two is one.                                          *)
LEMMA Halved ==
  ASSUME Inv, PowerOfTwo, capacity % 2 = 0, capacity' = capacity \div 2
  PROVE  PowerOfTwo'
<1>1. capacity = 2 * capacity' /\ capacity' \in Nat
  BY DEF Inv, TypeOK
<1> SUFFICES ASSUME NEW m \in Nat, NEW d \in Nat, capacity' = m * d, d % 2 = 1
             PROVE  d = 1
  BY DEF PowerOfTwo
<1>2. capacity = (2 * m) * d /\ 2 * m \in Nat
  BY <1>1
<1> QED BY <1>2 DEF PowerOfTwo

(* A power of two is 1, 2 or a multiple of four.                           *)
LEMMA PowersOfTwo ==
  ASSUME Inv, PowerOfTwo
  PROVE  capacity \in {1, 2} \/ capacity % 4 = 0
<1> DEFINE q == capacity \div 4
<1>1. capacity \in Nat /\ q \in Nat
  BY DEF Inv, TypeOK
<1>2. capacity = 1 * capacity
  BY <1>1
<1>3. capacity % 4 \in {1, 3} => capacity % 2 = 1
  BY <1>1
<1>4. capacity % 4 = 2 => capacity = 2 * (2 * q + 1) /\ (2 * q + 1) % 2 = 1
  BY <1>1
<1>5. 2 * q + 1 \in Nat
  BY <1>1
<1>6. capacity % 4 \in {0, 1, 2, 3}
  BY <1>1
<1> HIDE DEF q
<1>7. CASE capacity % 4 \in {1, 3}
  BY <1>1, <1>2, <1>3, <1>7 DEF PowerOfTwo
<1>8. CASE capacity % 4 = 2
  <2>1. 2 * q + 1 = 1
    BY <1>4, <1>5, <1>8 DEF PowerOfTwo
  <2> QED BY <1>4, <1>8, <2>1
<1> QED BY <1>6, <1>7, <1>8

(* The block of vec_alloc has one cell.                                    *)
LEMMA SpaceInit == Init => SpaceInv
<1> SUFFICES ASSUME Init PROVE SpaceBounded /\ PowerOfTwo
  BY InvInit DEF SpaceInv
<1>1. capacity = 1 /\ size = 0
  BY DEF Init
<1>2. ASSUME NEW m \in Nat, NEW d \in Nat, 1 = m * d PROVE d = 1
  BY <1>2
<1> QED BY <1>1, <1>2 DEF SpaceBounded, PowerOfTwo

(* A push doubles a full block; a pop halves one that is too large.        *)
LEMMA SpaceStep ==
  ASSUME SpaceInv, [Next]_vars
  PROVE  SpaceInv'
<1>1. Inv /\ Inv' /\ SpaceBounded /\ PowerOfTwo
  BY InvStep DEF SpaceInv
<1>2. capacity \in Nat \ {0} /\ size \in Nat /\ capacity <= 4 * (size + 1) /\ size <= capacity
  BY <1>1 DEF Inv, TypeOK, SpaceBounded, InBounds
<1> SUFFICES SpaceBounded' /\ PowerOfTwo'
  BY <1>1 DEF SpaceInv
<1>3. ASSUME capacity' = UpsizeCheck, size' = size + 1 PROVE SpaceBounded' /\ PowerOfTwo'
  <2>1. SpaceBounded'
    BY <1>2, <1>3 DEF SpaceBounded, UpsizeCheck
  <2>2. PowerOfTwo'
    BY <1>1, <1>3, Doubled DEF UpsizeCheck, PowerOfTwo
  <2> QED BY <2>1, <2>2
<1>4. CASE PopBack
  <2>1. size' = size - 1 /\ size > 0
    BY <1>4 DEF PopBack
  <2>2. capacity \in {1, 2} \/ capacity % 4 = 0
    BY <1>1, PowersOfTwo
  <2>3. CASE capacity \div 4 > size
    <3>1. capacity' = capacity \div 2
      BY <1>4, <2>3, <1>2 DEF PopBack
    <3>2. capacity % 2 = 0
      BY <1>2, <2>1, <2>2, <2>3
    <3>3. SpaceBounded'
      BY <1>2, <2>1, <3>1 DEF SpaceBounded
    <3> QED BY <1>1, <3>1, <3>2, <3>3, Halved
  <2>4. CASE ~(capacity \div 4 > size)
    <3>1. capacity' = capacity
      BY <1>4, <2>4, <1>2 DEF PopBack
    <3>2. capacity <= 4 * size
      BY <1>2, <2>1, <2>2, <2>4
    <3>3. SpaceBounded'
      BY <1>2, <2>1, <3>1, <3>2 DEF SpaceBounded
    <3> QED BY <1>1, <3>1, <3>3 DEF PowerOfTwo
  <2> QED BY <2>3, <2>4
<1>5. CASE TakeData
  <2>1. capacity' = 1 /\ size' = 0
    BY <1>5 DEF TakeData
  <2>2. ASSUME NEW m \in Nat, NEW d \in Nat, 1 = m * d PROVE d = 1
    BY <2>2
  <2> QED BY <2>1, <2>2 DEF SpaceBounded, PowerOfTwo
<1>6. ASSUME UNCHANGED <<capacity, size>> PROVE SpaceBounded' /\ PowerOfTwo'
  BY <1>1, <1>6 DEF SpaceBounded, PowerOfTwo
<1>7. CASE \E e \in Elem : PushBack(e) \/ \E idx \in 0 .. MaxSize : Store(idx, e)
  BY <1>3, <1>6, <1>7 DEF PushBack, Store
<1>8. CASE EmplaceBack
  BY <1>3, <1>8 DEF EmplaceBack
<1>9. CASE ForeachBegin \/ ForeachVisit \/ ForeachReturn \/ UNCHANGED vars
  BY <1>6, <1>9 DEF ForeachBegin, ForeachVisit, ForeachReturn, vars, vec
<1> QED BY <1>4, <1>5, <1>7, <1>8, <1>9 DEF Next

(* The block is at most four times what is needed: the test of a quarter   *)
(* in vec_pop_back keeps up with any order of pushes and pops              *)
(* (vec.c:77-83).                                                          *)
THEOREM VecSpaceBounded == Spec => []SpaceBounded
<1>1. SpaceInv => SpaceBounded
  BY DEF SpaceInv
<1> QED BY <1>1, SpaceInit, SpaceStep, PTL DEF Spec

----------------------------------------------------------------------------
(* A step of vec_foreach keeps what it has passed in order; no other call  *)
(* runs inside it.                                                         *)
LEMMA ForeachStepInOrder ==
  ASSUME Inv, Inv', ForeachInOrder, [Next]_vars
  PROVE  ForeachInOrder'
<1>1. size \in Nat /\ i \in Nat \cup {-1} /\ seen \in Seq(Elem)
  BY DEF Inv, TypeOK
<1>2. ASSUME Idle, i' = i PROVE ForeachInOrder'
  BY <1>2 DEF Idle, ForeachInOrder
<1>3. CASE ForeachBegin
  <2>1. i' = 0 /\ seen' = << >> /\ size' = size
    BY <1>3 DEF ForeachBegin, vec
  <2>2. seen' = [p \in 1 .. 0 |-> data'[p - 1]]
    BY <2>1
  <2>3. i' <= size' /\ 1 .. i' = 1 .. 0
    BY <1>1, <2>1
  <2>4. seen' = [p \in 1 .. i' |-> data'[p - 1]]
    BY <2>2, <2>3, Zenon
  <2> QED BY <2>3, <2>4, Zenon DEF ForeachInOrder
<1>4. CASE ForeachReturn
  BY <1>4 DEF ForeachReturn, ForeachInOrder
<1>5. CASE ForeachVisit
  <2>1. /\ i \in Nat /\ i < size /\ i' = i + 1 /\ size' = size /\ data' = data
        /\ seen' = Append(seen, data[i])
    BY <1>1, <1>5 DEF ForeachVisit, At, vec
  <2>2. seen = [p \in 1 .. i |-> data[p - 1]]
    BY <2>1 DEF ForeachInOrder
  <2>3. Len(seen) = i
    BY <1>1, <2>1, <2>2
  <2>4. seen' = [p \in 1 .. (i + 1) |-> IF p = i + 1 THEN data[i] ELSE seen[p]]
    BY <1>1, <2>1, <2>3
  <2>5. ASSUME NEW p \in 1 .. (i + 1)
        PROVE  (IF p = i + 1 THEN data[i] ELSE seen[p]) = data[p - 1]
    <3>1. p = i + 1 => p - 1 = i
      BY <2>1
    <3>2. p # i + 1 => p \in 1 .. i
      BY <2>1
    <3> QED BY <2>2, <3>1, <3>2
  <2>6. seen' = [p \in 1 .. (i + 1) |-> data[p - 1]]
    BY <2>4, <2>5
  <2>7. i' <= size'
    BY <1>1, <2>1
  <2>8. seen' = [p \in 1 .. i' |-> data'[p - 1]]
    BY <2>1, <2>6, Zenon
  <2> QED BY <2>7, <2>8, Zenon DEF ForeachInOrder
<1>6. CASE UNCHANGED vars
  BY <1>6 DEF vars, vec, ForeachInOrder
<1>7. CASE \E e \in Elem : PushBack(e) \/ \E idx \in 0 .. MaxSize : Store(idx, e)
  BY <1>2, <1>7 DEF PushBack, Store
<1>8. CASE EmplaceBack \/ PopBack \/ TakeData
  BY <1>2, <1>8 DEF EmplaceBack, PopBack, TakeData
<1> QED BY <1>3, <1>4, <1>5, <1>6, <1>7, <1>8 DEF Next

(* vec_foreach passes the elements in order, each once, and never the NULL *)
(* of vec_at (vec.c:114-128).                                              *)
THEOREM VecForeachInOrder == Spec => []ForeachInOrder
<1>1. Init => ForeachInOrder
  BY DEF Init, ForeachInOrder
<1> QED BY <1>1, InvInit, InvStep, ForeachStepInOrder, PTL DEF Spec

----------------------------------------------------------------------------
(* The refinement of Stack.                                                *)

(* The elements form a sequence, the cells below size.                     *)
LEMMA ContentsSeq ==
  ASSUME Inv
  PROVE  /\ Contents \in Seq(Elem) /\ Len(Contents) = size
         /\ DOMAIN Contents = 1 .. size
<1>1. \A p \in 1 .. size : data[p - 1] \in Elem
  BY DEF Inv, TypeOK, InBounds, Block, Cells
<1> QED BY <1>1 DEF Contents, Inv, TypeOK

(* After a step that keeps the invariant, too.                             *)
LEMMA ContentsSeqNext ==
  ASSUME Inv'
  PROVE  /\ Contents' \in Seq(Elem) /\ Len(Contents') = size'
         /\ \A p \in 1 .. size' : data'[p - 1] \in Elem /\ Contents'[p] = data'[p - 1]
<1>1. size' \in Nat /\ capacity' \in Nat /\ size' <= capacity'
  BY DEF Inv, TypeOK, InBounds
<1>2. data' \in [0 .. (capacity' - 1) -> Elem]
  BY DEF Inv, TypeOK, Block, Cells
<1>3. \A p \in 1 .. size' : p - 1 \in 0 .. (capacity' - 1)
  <2>1. \A m, n \in Nat : m <= n => \A p \in 1 .. m : p - 1 \in 0 .. (n - 1)
    OBVIOUS
  <2> QED BY <1>1, <2>1
<1>4. \A p \in 1 .. size' : data'[p - 1] \in Elem
  BY <1>2, <1>3
<1> QED BY <1>1, <1>4 DEF Contents

(* A step that keeps the cells below size and adds one appends an element. *)
LEMMA AppendsOne ==
  ASSUME Inv, Inv', size' = size + 1,
         \A c \in 0 .. (size - 1) : data'[c] = data[c]
  PROVE  \E e \in Elem : Contents' = Append(Contents, e)
<1>1. data'[size] \in Elem
  <2>1. size + 1 \in 1 .. size' /\ (size + 1) - 1 = size
    BY DEF Inv, TypeOK
  <2> QED BY <2>1, ContentsSeqNext
<1>2. Append(Contents, data'[size]) \in Seq(Elem)
      /\ Len(Append(Contents, data'[size])) = size + 1
  BY <1>1, ContentsSeq
<1>3. Contents' \in Seq(Elem) /\ Len(Contents') = size + 1
  BY ContentsSeqNext
<1>4. ASSUME NEW p \in 1 .. (size + 1)
      PROVE  Contents'[p] = Append(Contents, data'[size])[p]
  <2>1. Contents'[p] = data'[p - 1]
    BY DEF Contents, Inv, TypeOK
  <2>2. CASE p = size + 1
    BY <2>1, <2>2, ContentsSeq DEF Inv, TypeOK
  <2>3. CASE p # size + 1
    <3>1. p \in 1 .. size /\ p - 1 \in 0 .. (size - 1)
      BY <2>3 DEF Inv, TypeOK
    <3>2. Append(Contents, data'[size])[p] = Contents[p]
      BY <3>1, ContentsSeq
    <3>3. Contents[p] = data[p - 1]
      BY <3>1 DEF Contents
    <3> QED BY <2>1, <3>1, <3>2, <3>3
  <2> QED BY <2>2, <2>3
<1>5. Contents' = Append(Contents, data'[size])
  BY <1>2, <1>3, <1>4, SeqEqual
<1> QED BY <1>1, <1>5

(* A step that keeps the cells below size' = size - 1 drops the last one.  *)
LEMMA DropsOne ==
  ASSUME Inv, Inv', size > 0, size' = size - 1,
         \A c \in 0 .. (size - 1) : c < size' => data'[c] = data[c]
  PROVE  Contents # << >> /\ Contents' = SubSeq(Contents, 1, Len(Contents) - 1)
<1>1. Contents' \in Seq(Elem) /\ Len(Contents') = size - 1
  BY ContentsSeqNext
<1>2. /\ SubSeq(Contents, 1, size - 1) \in Seq(Elem)
      /\ Len(SubSeq(Contents, 1, size - 1)) = size - 1
      /\ \A p \in 1 .. (size - 1) : SubSeq(Contents, 1, size - 1)[p] = Contents[p]
  BY ContentsSeq DEF Inv, TypeOK
<1>3. ASSUME NEW p \in 1 .. (size - 1) PROVE Contents'[p] = Contents[p]
  BY DEF Contents, Inv, TypeOK
<1>4. Contents' = SubSeq(Contents, 1, size - 1)
  BY <1>1, <1>2, <1>3, SeqEqual
<1> QED BY <1>4, ContentsSeq DEF Inv, TypeOK

(* Every step of the vector is a step of the stack or changes nothing.     *)
LEMMA StackStep ==
  ASSUME Inv, Inv', [Next]_vars
  PROVE  [Abstract!Next]_Contents
<1> USE DEF Abstract!Next
<1>1. ASSUME NEW e \in Elem, PushBack(e) PROVE Abstract!Push
  <2>1. PICK new \in Block(UpsizeCheck) :
            /\ Realloc(UpsizeCheck, new)
            /\ data' = [new EXCEPT ![size] = e]
    BY <1>1 DEF PushBack
  <2>2. \A c \in 0 .. (size - 1) : new[c] = data[c]
    BY <2>1, UpsizedRoom
  <2>3. \A c \in 0 .. (size - 1) : data'[c] = data[c]
    <3>1. size \in Nat /\ DOMAIN new = 0 .. (UpsizeCheck - 1) /\ size < UpsizeCheck
          /\ UpsizeCheck \in Nat
      BY <2>1, UpsizedRoom DEF Block, Cells, Inv, TypeOK
    <3>2. \A c \in 0 .. (size - 1) : c \in DOMAIN new /\ c # size
      BY <3>1
    <3> QED BY <2>1, <2>2, <3>2
  <2> QED BY <1>1, <2>3, AppendsOne DEF PushBack, Abstract!Push
<1>2. ASSUME NEW e \in Elem, NEW idx \in 0 .. MaxSize, Store(idx, e)
      PROVE  Abstract!Store
  <2>1. idx < size /\ data' = [data EXCEPT ![idx] = e] /\ size' = size
    <3>1. PICK c \in At(idx) : data' = [data EXCEPT ![c] = e]
      BY <1>2 DEF Store
    <3>2. c = idx /\ ~(idx >= size)
      BY DEF At
    <3>3. size \in Nat /\ idx \in Nat
      BY VecAssumption DEF Inv, TypeOK
    <3>4. size' = size
      BY <1>2 DEF Store
    <3> QED BY <3>1, <3>2, <3>3, <3>4
  <2>2. idx + 1 \in DOMAIN Contents
    BY <2>1, ContentsSeq DEF Inv, TypeOK
  <2>3. Contents' = [Contents EXCEPT ![idx + 1] = e]
    <3>1. size \in Nat /\ DOMAIN data = 0 .. (capacity - 1) /\ size <= capacity
          /\ capacity \in Nat
      BY DEF Inv, TypeOK, InBounds, Block, Cells
    <3>2. \A p \in 1 .. size : data'[p - 1] = IF p = idx + 1 THEN e ELSE data[p - 1]
      <4>1. \A p \in 1 .. size : p - 1 \in DOMAIN data /\ (p - 1 = idx <=> p = idx + 1)
        BY <3>1
      <4> QED BY <2>1, <4>1
    <3>3. Contents' = [p \in 1 .. size |-> data'[p - 1]]
      BY <2>1 DEF Contents
    <3>4. [Contents EXCEPT ![idx + 1] = e]
            = [p \in 1 .. size |-> IF p = idx + 1 THEN e ELSE data[p - 1]]
      BY <2>2 DEF Contents
    <3> QED BY <3>2, <3>3, <3>4
  <2> QED BY <2>2, <2>3 DEF Abstract!Store
<1>3. CASE EmplaceBack
  <2>1. PICK new \in Block(UpsizeCheck) : Realloc(UpsizeCheck, new) /\ data' = new
    BY <1>3 DEF EmplaceBack
  <2>2. \A c \in 0 .. (size - 1) : data'[c] = data[c]
    BY <2>1, UpsizedRoom
  <2>3. Abstract!Push
    BY <1>3, <2>2, AppendsOne DEF EmplaceBack, Abstract!Push
  <2> QED BY <2>3
<1>4. CASE PopBack
  <2>1. \A c \in 0 .. (size - 1) : data'[c] = data[c]
    BY <1>4, ShrunkRoom DEF PopBack
  <2>2. Abstract!Pop
    BY <1>4, <2>1, DropsOne DEF PopBack, Abstract!Pop
  <2> QED BY <2>2
<1>5. CASE TakeData
  <2>1. Contents' = << >>
    BY <1>5 DEF TakeData, Contents
  <2> QED BY <2>1 DEF Abstract!Clear
<1>6. CASE ForeachBegin \/ ForeachVisit \/ ForeachReturn \/ UNCHANGED vars
  BY <1>6 DEF ForeachBegin, ForeachVisit, ForeachReturn, vars, vec, Contents
<1> QED BY <1>1, <1>2, <1>3, <1>4, <1>5, <1>6 DEF Next

(* The vector implements the stack: its calls change the contents at the   *)
(* end or at one element, and resizing not at all (vec.c:47-143).          *)
THEOREM VecImplementsStack == Spec => ImplementsStack
<1>1. Init => Abstract!Init
  BY DEF Init, Abstract!Init, Contents
<1>2. Inv /\ Inv' /\ [Next]_vars => [Abstract!Next]_Contents
  BY StackStep
<1> QED BY <1>1, <1>2, InvInit, InvStep, PTL DEF Spec, Abstract!Spec, ImplementsStack
=============================================================================
