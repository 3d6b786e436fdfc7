--------------------------- MODULE MCLinkedListRaw ---------------------------
(* LinkedListRaw with the constants of its cfg file.                        *)
EXTENDS LinkedListRaw
=============================================================================
