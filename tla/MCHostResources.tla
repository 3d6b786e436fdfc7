-------------------------- MODULE MCHostResources --------------------------
(* HostResources with the bound of MCHostResources.cfg.                    *)
EXTENDS HostResources
=============================================================================
