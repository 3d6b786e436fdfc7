--------------------------- MODULE MCEpollHookRaw ---------------------------
(* EpollHookRaw with two hooks for one descriptor.                         *)
EXTENDS EpollHookRaw

CONSTANTS h1, h2, fa
MCNew     == [h \in Hook |-> {[fd |-> fa, ops |-> {0}]}]
MCMod     == [h \in Hook |-> {}]
MCHappens == [f \in Fd |-> {0}]
=============================================================================
