------------------------------ MODULE MCPubSub ------------------------------
(* PubSub on a small instance: three events, the second of another op.       *)
EXTENDS PubSub

MCRoots == {"r1", "r2"}
MCEvents == 1..3
MCRoot == [e \in MCEvents |-> IF e = 2 THEN "r2" ELSE "r1"]
MCTime == [e \in MCEvents |-> e]
MCFilters == {{"r1"}, MCRoots}
MCSinces == {0, 2}
=============================================================================
