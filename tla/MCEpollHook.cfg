CONSTANTS
    h1 = h1
    h2 = h2
    fa = fa
    fb = fb
    Hook = {h1, h2}
    NoHook = NoHook
    Freed = Freed
    Fd = {fa, fb}
    Thread = {t1, t2}
    ERR = 1
    HUP = 2
    NewChoice <- MCNew
    ModChoice <- MCMod
    Happens <- MCHappens

SPECIFICATION Spec

INVARIANTS TypeOK NoDangling Registered OneAtATime NeverSilenced
PROPERTY ReadyServed
