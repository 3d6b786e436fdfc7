---------------------------- MODULE MCHashTable ----------------------------
(* HashTable with primes small enough that four keys grow it twice.        *)
EXTENDS HashTable

(* The keys are their own hashes; 1 and 6 share a bucket of five.          *)
MCKey     == {0, 1, 2, 6}
MCHash(k) == k
MCPrimes  == <<1, 2, 5>>
=============================================================================
