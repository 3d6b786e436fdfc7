---------------------------- MODULE MCEpollHook ----------------------------
(* A hook with a callback for ALL, and one that competes for the same      *)
(* descriptor or has its own.                                              *)
EXTENDS EpollHook

CONSTANTS h1, h2, fa, fb
MCNew ==
    [h \in Hook |-> IF h = h1 THEN {[fd |-> fa, ops |-> {0, ALL}]}
                              ELSE {[fd |-> f, ops |-> {0}] : f \in Fd}]
MCMod     == [h \in Hook |-> IF h = h1 THEN {ALL} ELSE {}]
MCHappens == [f \in Fd |-> IF f = fa THEN {0, HUP} ELSE {ERR}]
=============================================================================
