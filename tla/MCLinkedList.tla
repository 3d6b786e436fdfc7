---------------------------- MODULE MCLinkedList ----------------------------
(* LinkedList with the constants of MCLinkedList.cfg.  Neither the list    *)
(* nor a property of it tells one node from another, and the properties    *)
(* are safety properties.                                                  *)
EXTENDS LinkedList

Interchangeable == Permutations(Node)
=============================================================================
