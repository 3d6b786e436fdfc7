\* n_nodes stays below three, so that a deletion never makes the table grow:
\* the one it resizes it shrinks.
CONSTANTS
    Key <- MCKey
    Value = {Null}
    Null = Null
    NoValue = NoValue
    NoKey = NoKey
    Freed = Freed
    Hash <- MCHash
    Primes <- MCPrimes
    MaxNodes = 2

SPECIFICATION ForeachSpec

INVARIANT SelfDeletionSafe
