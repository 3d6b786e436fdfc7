\* Array sizes 1, 2 and 5: two growths and two shrinkages are in reach.
CONSTANTS
    Key <- MCKey
    Value = {v1, v2}
    NoValue = NoValue
    Hash <- MCHash
    Primes <- MCPrimes
    MaxNodes = 6

SPECIFICATION Spec

INVARIANTS
    LookupFindsAll
    NoDuplicates
    SizeNeverUnder
    ForeachExact
PROPERTIES
    ImplementsDictionary
    CallsReturn
