----------------------------- MODULE MCPipeline -----------------------------
(* Small instances of Pipeline.                                            *)
EXTENDS PipelineInv

CONSTANTS Good, Bad

MCMatrix == {Junk, Zero, Lhs, Rhs, Good, Bad}

(* Good is the product the program wants, Bad that of anything else.       *)
MCMul(a, b) == IF a = Lhs /\ b = Rhs THEN Good ELSE Bad
=============================================================================
