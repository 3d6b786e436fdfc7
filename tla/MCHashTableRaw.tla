--------------------------- MODULE MCHashTableRaw ---------------------------
(* HashTableRaw with the constants of MCHashTable.                         *)
EXTENDS HashTableRaw

MCKey     == {0, 1, 2, 6}
MCHash(k) == k
MCPrimes  == <<1, 2, 5>>
=============================================================================
