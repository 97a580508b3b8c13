------------------------------ MODULE MCOpRun ------------------------------
(* One run and the node it may start, one more node, and one that is dead;   *)
(* an op of two params, and one that makes a call which makes another.        *)
EXTENDS RunOutput

From(a, f, e, d, p) == [args |-> a, file |-> f, env |-> e, default |-> d, prompt |-> p]
Profiles == { From("good", "bad", "none", "none", "none"),
              From("bad", "none", "none", "static", "good"),
              From("none", "bad", "bad", "bad", "good"),
              From("none", "none", "good", "static", "none"),
              From("bad", "bad", "none", "none", "bad"),
              From("none", "none", "none", "none", "none") }

MCParams == <<"a", "b">>
MCOffers == [{"a", "b"} -> Profiles]
MCParentOf == [x \in {"serial", "container"} |-> IF x = "serial" THEN "op" ELSE "serial"]
=============================================================================
