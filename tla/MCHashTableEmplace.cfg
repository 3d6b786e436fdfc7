CONSTANTS
    Key <- MCKey
    Value = {Null}
    Null = Null
    NoValue = NoValue
    NoKey = NoKey
    Freed = Freed
    Hash <- MCHash
    Primes <- MCPrimes
    MaxNodes = 5

SPECIFICATION EmplaceSpec

INVARIANT EmplaceReturnsItsPair
