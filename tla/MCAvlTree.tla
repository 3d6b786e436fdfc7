----------------------------- MODULE MCAvlTree -----------------------------
(* AvlTree and AvlForeach with the constants of MCAvlTree.cfg.             *)
EXTENDS AvlForeach
=============================================================================
