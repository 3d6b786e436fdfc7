----------------------------- MODULE Dictionary -----------------------------
(***************************************************************************)
(* What a hash table promises its client: a partial function from keys to  *)
(* values that changes at one key at a time, and never while the table     *)
(* resizes.                                                                *)
(***************************************************************************)
CONSTANTS Key, Value, NoValue

VARIABLES
    dict,
    resizing        \* the call that changed dict last is not over yet

Init == dict = [k \in Key |-> NoValue] /\ resizing = FALSE

(* A change; it may lead to a resize.                                      *)
Put(k, v) ==
    /\ ~resizing
    /\ dict' = [dict EXCEPT ![k] = v]
    /\ resizing' \in BOOLEAN

Resized == resizing /\ resizing' = FALSE /\ UNCHANGED dict

Next == Resized \/ \E k \in Key, v \in Value \cup {NoValue} : Put(k, v)

Spec == Init /\ [][Next]_<<dict, resizing>>
=============================================================================
