CONSTANTS
    h1 = h1
    h2 = h2
    fa = fa
    Hook = {h1, h2}
    NoHook = NoHook
    Freed = Freed
    Fd = {fa}
    Thread = {t1}
    ERR = 1
    HUP = 2
    NewChoice <- MCNew
    ModChoice <- MCMod
    Happens <- MCHappens

SPECIFICATION RawSpec

INVARIANT UnregisteredIsSilent
