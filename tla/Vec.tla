-------------------------------- MODULE Vec --------------------------------
(***************************************************************************)
(* The growing array of src/src/global/data-structures/vec.c and a client  *)
(* that uses it as its header allows.  data is the allocated block, an     *)
(* element per cell; a cell that was never written, or that realloc added, *)
(* holds any element.  The client pops only what it has pushed:            *)
(* vec_pop_back does not look at size before it decrements it.             *)
(***************************************************************************)
EXTENDS Integers, Sequences

CONSTANTS
    Elem,           \* the values an element can have
    MaxSize         \* bound: the size at which the client stops pushing

ASSUME VecAssumption == Elem # {} /\ MaxSize \in Nat

VARIABLES
    capacity, size, \* struct vec_s
    data,           \* the block: cells 0 .. capacity - 1
    i,              \* the loop of vec_foreach, or -1 outside it
    seen            \* the elements vec_foreach has passed to each

vec  == <<capacity, size, data>>
vars == <<vec, i, seen>>

Cells(cap) == 0 .. (cap - 1)
Block(cap) == [Cells(cap) -> Elem]

TypeOK ==
    /\ capacity \in Nat \ {0}
    /\ size \in Nat
    /\ data \in Block(capacity)
    /\ i \in Nat \cup {-1}
    /\ seen \in Seq(Elem)

(* vec_alloc.                                                              *)
Init ==
    /\ capacity = 1
    /\ size = 0
    /\ data \in Block(1)
    /\ i = -1
    /\ seen = << >>

Idle == i = -1

(* realloc: the cells in both blocks keep their elements.                  *)
Realloc(cap, new) ==
    /\ new \in Block(cap)
    /\ \A c \in Cells(cap) \cap Cells(capacity) : new[c] = data[c]

(* The mutant that grows only when the block is already overfull.          *)
UpsizeLate == IF capacity < size THEN 2 * capacity ELSE capacity

(* The capacity after _upsize_check.                                       *)
UpsizeCheck == IF capacity = size THEN 2 * capacity ELSE capacity

(* The mutant that stores one cell too far to the left.                    *)
PushOverwrites(e) ==
    /\ Idle /\ size < MaxSize
    /\ capacity' = UpsizeCheck
    /\ \E new \in Block(UpsizeCheck) :
          /\ Realloc(UpsizeCheck, new)
          /\ data' = [new EXCEPT ![IF size = 0 THEN 0 ELSE size - 1] = e]
    /\ size' = size + 1
    /\ UNCHANGED <<i, seen>>

(* vec_push_back.  When realloc fails nothing changes.                     *)
PushBack(e) ==
    /\ Idle /\ size < MaxSize
    /\ capacity' = UpsizeCheck
    /\ \E new \in Block(UpsizeCheck) :
          /\ Realloc(UpsizeCheck, new)
          /\ data' = [new EXCEPT ![size] = e]
    /\ size' = size + 1
    /\ UNCHANGED <<i, seen>>

(* vec_emplace_back hands out the new cell as it is.                       *)
EmplaceBack ==
    /\ Idle /\ size < MaxSize
    /\ capacity' = UpsizeCheck
    /\ \E new \in Block(UpsizeCheck) :
          /\ Realloc(UpsizeCheck, new)
          /\ data' = new
    /\ size' = size + 1
    /\ UNCHANGED <<i, seen>>

(* The mutant that never shrinks.                                          *)
PopNeverShrinks ==
    /\ Idle /\ size > 0
    /\ size' = size - 1
    /\ UNCHANGED <<capacity, data, i, seen>>

(* vec_pop_back: the block is halved when less than a quarter is in use.   *)
(* When realloc fails nothing changes.                                     *)
PopBack ==
    /\ Idle /\ size > 0
    /\ \/ /\ capacity \div 4 > size
          /\ capacity' = capacity \div 2
          /\ \E new \in Block(capacity \div 2) : Realloc(capacity \div 2, new) /\ data' = new
       \/ /\ capacity \div 4 <= size
          /\ UNCHANGED <<capacity, data>>
    /\ size' = size - 1
    /\ UNCHANGED <<i, seen>>

(* vec_at: the cell of an index, if there is one.  vec_front and vec_back  *)
(* are its first and last.                                                 *)
At(idx) == IF size = 0 \/ idx >= size THEN {} ELSE {idx}

(* The client stores through what vec_at returned.                         *)
Store(idx, e) ==
    /\ Idle
    /\ \E c \in At(idx) : data' = [data EXCEPT ![c] = e]
    /\ UNCHANGED <<capacity, size, i, seen>>

(* vec_take_data or vec_cleanup, and a vec_alloc for the next vector.      *)
(* vec_take_data writes to the struct after it has freed it (vec.c:139-140):  *)
(* undefined, and taken to have no effect, as the struct is gone.          *)
TakeData ==
    /\ Idle
    /\ capacity' = 1 /\ size' = 0
    /\ data' \in Block(1)
    /\ UNCHANGED <<i, seen>>

(* vec_foreach.                                                            *)
ForeachBegin ==
    /\ Idle
    /\ i' = 0 /\ seen' = << >>
    /\ UNCHANGED vec

(* The mutant that starts at the second element.                           *)
ForeachVisitNext ==
    /\ i >= 0 /\ i < size
    /\ \E c \in At(IF i + 1 < size THEN i + 1 ELSE i) : seen' = Append(seen, data[c])
    /\ i' = i + 1
    /\ UNCHANGED vec

(* each returns a positive value.                                          *)
ForeachVisit ==
    /\ i >= 0 /\ i < size
    /\ \E c \in At(i) : seen' = Append(seen, data[c])
    /\ i' = i + 1
    /\ UNCHANGED vec

(* each returns zero or less, or the loop is over.                         *)
ForeachReturn ==
    /\ i >= 0
    /\ i' = -1 /\ seen' = << >>
    /\ UNCHANGED vec

Next ==
    \/ \E e \in Elem : PushBack(e) \/ \E idx \in 0 .. MaxSize : Store(idx, e)
    \/ EmplaceBack \/ PopBack \/ TakeData
    \/ ForeachBegin \/ ForeachVisit \/ ForeachReturn

Spec == Init /\ [][Next]_vars

----------------------------------------------------------------------------
(* Properties.                                                             *)

(* The elements are inside the block: no push has stored past its end and  *)
(* no shrink has cut an element off (vec.c:47-86).                         *)
InBounds == size <= capacity

(* The block is never more than four times what is needed, whatever the    *)
(* order of pushes and pops: shrinking keeps up (vec.c:77-83).             *)
SpaceBounded == capacity <= 4 * (size + 1)

(* vec_foreach passes the elements in order, none skipped or repeated, and *)
(* never passes the NULL of vec_at (vec.c:114-128).                        *)
ForeachInOrder == i >= 0 => i <= size /\ seen = [p \in 1 .. i |-> data[p - 1]]

(* Pushes, pops and stores act on the end or on one element; growing,      *)
(* shrinking and iterating change no element (vec.c:58-143).               *)
Contents == [p \in 1 .. size |-> data[p - 1]]
Abstract == INSTANCE Stack WITH elems <- Contents
ImplementsStack == Abstract!Spec
=============================================================================
