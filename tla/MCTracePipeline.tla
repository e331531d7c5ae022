--------------------------- MODULE MCTracePipeline ---------------------------
(* TLC instances of TracePipeline.                                          *)
EXTENDS TracePipeline

OneUnit  == [s \in Sequences |-> 1]
TwoUnits == [s \in Sequences |-> 2]
=============================================================================
