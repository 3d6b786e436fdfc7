------------------------------- MODULE MCVec -------------------------------
(* Vec with the constants of MCVec.cfg.                                    *)
EXTENDS Vec
=============================================================================
